---------------------------- MODULE Spec2Model ----------------------------
(***************************************************************************)
(* A model of the PDF text-extraction core of go-html-pdf: the xref        *)
(* loader (pdf/document.go), the object parser, the reference resolver and *)
(* page walk, the extractor facade, the layout reconstructor and the       *)
(* filter pipeline (decompress.go).                                        *)
(*                                                                         *)
(* Every component has its own specification (SpecLoad, ...); the          *)
(* variables of the other components keep their initial value there.       *)
(***************************************************************************)
EXTENDS Integers, Sequences, FiniteSets, TLC

VARIABLES
    \* ---- Document loader (Load, loadXRefAt, parseXRefTable, parseXRefStream)
    file,        \* the xref sections of doc.data read so far: offset -> section
    startxref,   \* what findStartXRef returns: "none" or an offset
    xref,        \* doc.xref: object number -> XRefEntry
    trailer,     \* doc.trailer: Nil or a Dict
    loadStack,   \* the offsets of the loadXRefAt calls in progress, oldest first
    loadOrder,   \* the offsets loadXRefAt has parsed a section at, in call order
    loadPc,      \* "new" | "loading" | "done" | "failed" | "overflow"
    \* ---- Object parser (Parser, ParseObject, parseArray, parseDict)
    pdata,       \* p.data: the bytes, one character each
    ppos,        \* p.pos
    pdepth,      \* p.depth
    pstack,      \* the parseArray and parseDict calls in progress, outermost first
    ppc,         \* "object" | "array" | "dict" | "unwind" | "done" | "failed" | "panic"
    presult,     \* what the outermost ParseObject call returned
    \* ---- Loaded document (ResolveRef, Pages) and Extractor; these read xref
    \* ---- and trailer
    docData,     \* doc.data: offset -> the object ParseObject reads after "N G obj"
    cache,       \* doc.cache: object number -> Object
    dpc,         \* "idle" | "overflow" (the goroutine stack is exhausted)
    dret,        \* the last call of the API and what it returned
    \* ---- Layout reconstruction (spansToText, cleanText)
    spans,       \* the spans the content-stream interpreter has collected
    pageText,    \* what spansToText returned, one character each
    layPc,       \* "spans" | "done"
    \* ---- Filter pipeline (DecompressStream, applyFilter)
    fdict,       \* the stream dictionary's /Filter
    flens,       \* the length of the raw data and of what each filter decodes to
    fcur,        \* current: its length, and whether a decoder has cut it short
    fidx,        \* the filters applied so far
    fpc,         \* "start" | "loop" | "done" | "failed"
    \* ---- Font encoding (FontEncoding, parseBFCharEntry, Decode)
    cmLine,      \* a line between beginbfchar and endbfchar
    enc,         \* the FontEncoding
    cmOut,       \* what Decode returned for the line's source code
    cmPc,        \* "line" | "range" | "parsed" | "decoded"
    cmLoop,      \* the locals of parseBFRangeEntry inside its loop
    \* ---- Document.Version
    verDoc,      \* doc.data of a loaded Document, and the array behind it
    verRet,      \* what Version returned
    verPc,       \* "loaded" | "returned" | "panic"
    \* ---- Content-stream interpreter (processOperator); it appends to spans
    ts,          \* the textState, inText and the font of ts.fontName
    opLast,      \* the operator processed last, with its operand stack
    opCount,     \* the operators processed so far
    \* ---- Decoders (runLengthDecode, asciiHexDecode)
    decIn,       \* data
    decOut,      \* what the decoder returned
    decPc,       \* "call" | "done" | "failed"
    \* ---- Converter (Close, ConvertHTML, ConvertURL, ConvertFile, convert)
    conv,        \* the Converter: cfg, closed, and what its contexts have seen
    calls,       \* per caller: the call in progress or returned last
    \* ---- Resolver on the bytes (resolveCompressed, resolveAtOffset)
    rsIn,        \* the bytes, and the xref entry or offset resolved
    rsOut,       \* the object returned
    rsPc         \* "call" | "done"

loadVars == <<file, startxref, xref, trailer, loadStack, loadOrder, loadPc>>

parseVars == <<pdata, ppos, pdepth, pstack, ppc, presult>>

docVars == <<docData, cache, dpc, dret>>

layVars == <<spans, pageText, layPc>>

filtVars == <<fdict, flens, fcur, fidx, fpc>>

cmapVars == <<cmLine, enc, cmOut, cmPc, cmLoop>>

\* The components that share no state with another.
verVars == <<verDoc, verRet, verPc>>

opVars == <<ts, opLast, opCount>>

decVars == <<decIn, decOut, decPc>>

convVars == <<conv, calls>>

rsVars == <<rsIn, rsOut, rsPc>>

extVars == <<cmapVars, verVars, opVars, decVars, convVars, rsVars>>

vars == <<loadVars, parseVars, docVars, layVars, filtVars, extVars>>

\* What a step of one component leaves alone.
notLoadVars == <<parseVars, docVars, layVars, filtVars, extVars>>
notParseVars == <<loadVars, docVars, layVars, filtVars, extVars>>
notDocVars ==
    <<file, startxref, loadStack, loadOrder, loadPc, parseVars, layVars, filtVars,
      extVars>>
notLayVars == <<loadVars, parseVars, docVars, filtVars, extVars>>
notFiltVars == <<loadVars, parseVars, docVars, layVars, extVars>>
coreVars == <<loadVars, parseVars, docVars, layVars, filtVars>>
notCmapVars == <<coreVars, verVars, opVars, decVars, convVars, rsVars>>
notVerVars == <<coreVars, cmapVars, opVars, decVars, convVars, rsVars>>
notOpVars ==
    <<loadVars, parseVars, docVars, pageText, layPc, filtVars, cmapVars, verVars,
      decVars, convVars, rsVars>>
notDecVars == <<coreVars, cmapVars, verVars, opVars, convVars, rsVars>>
notConvVars == <<coreVars, cmapVars, verVars, opVars, decVars, rsVars>>
notRsVars == <<coreVars, cmapVars, verVars, opVars, decVars, convVars>>

(***************************************************************************)
(* Shared values                                                           *)
(***************************************************************************)

\* A Dict is the set of its <<key, value>> pairs; make(Dict) is empty.
EmptyDict == {}

HasKey(d, key) == \E kv \in d : kv[1] = key

Lookup(d, key) == (CHOOSE kv \in d : kv[1] = key)[2]

\* Dict.GetInt: the value and whether the key is present. Indexing a nil
\* Dict finds no key, as indexing an empty one.
GetInt(d, key) ==
    IF HasKey(d, key) THEN [v |-> Lookup(d, key), ok |-> TRUE]
    ELSE [v |-> 0, ok |-> FALSE]

\* A nil Dict and a Dict d, as the values of a field that may be nil.
NilDict == <<>>
SomeDict(d) == <<d>>
DictOf(f) == IF f = NilDict THEN EmptyDict ELSE f[1]

\* The empty map.
EmptyMap == [k \in {} |-> 0]

\* m[key] = val
MapSet(m, key, val) == [k \in DOMAIN m \cup {key} |-> IF k = key THEN val ELSE m[k]]

\* The parser's variables in a specification that does not parse.
ParseIdle ==
    /\ pdata = <<>>
    /\ ppos = 0
    /\ pdepth = 0
    /\ pstack = <<>>
    /\ ppc = "done"
    /\ presult = <<>>

\* The document's variables before a document is loaded.
DocIdle ==
    /\ docData = EmptyMap
    /\ cache = EmptyMap
    /\ dpc = "none"
    /\ dret = <<>>

\* The layout's variables in a specification that lays nothing out.
LayIdle ==
    /\ spans = <<>>
    /\ pageText = <<>>
    /\ layPc = "idle"

\* The pipeline's variables in a specification that decodes nothing.
FiltIdle ==
    /\ fdict = <<>>
    /\ flens = <<>>
    /\ fcur = <<>>
    /\ fidx = 0
    /\ fpc = "idle"

\* The font encoding in a specification that decodes no text.
CmapIdle ==
    /\ cmLine = <<>>
    /\ enc = <<>>
    /\ cmOut = <<>>
    /\ cmPc = "idle"
    /\ cmLoop = <<>>

\* Version in a specification that does not call it.
VerIdle ==
    /\ verDoc = <<>>
    /\ verRet = <<>>
    /\ verPc = "idle"

\* The interpreter in a specification that runs no content stream.
OpIdle ==
    /\ ts = <<>>
    /\ opLast = <<>>
    /\ opCount = 0

\* The decoders in a specification that calls none.
DecIdle ==
    /\ decIn = <<>>
    /\ decOut = <<>>
    /\ decPc = "idle"

\* The Converter in a specification that converts nothing.
ConvIdle ==
    /\ conv = <<>>
    /\ calls = <<>>

\* The resolver on the bytes in a specification that does not call it.
RsIdle ==
    /\ rsIn = <<>>
    /\ rsOut = <<>>
    /\ rsPc = "idle"

\* The components of extVars, idle.
ExtIdle == CmapIdle /\ VerIdle /\ OpIdle /\ DecIdle /\ ConvIdle /\ RsIdle

\* The loader's variables in a specification that does not load.
LoadIdle ==
    /\ file = EmptyMap
    /\ startxref = [found |-> FALSE, off |-> 0]
    /\ xref = EmptyMap
    /\ trailer = NilDict
    /\ loadStack = <<>>
    /\ loadOrder = <<>>
    /\ loadPc = "idle"

(***************************************************************************)
(* Document loader                                                         *)
(***************************************************************************)

\* The largest offset an xref section starts at. Offset 0 holds the %PDF-
\* header, offsets 1..MaxOff may hold a section and MaxOff + 1 is len(doc.data).
MaxOff == 2

\* The depth of loadXRefAt calls at which the goroutine stack is exhausted.
MaxLoadDepth == 4

\* The object numbers the sections speak about.
ObjNums == {1, 2}

DataLen == MaxOff + 1

\* The values a /Prev key may hold: 0 stands for every value <= 0.
PrevValues == 0 .. DataLen

\* The trailer dictionaries: /Root and /Prev are optional; the dictionaries
\* with /Prev are those of a well-formed update, which have /Root.
TrailerDicts ==
    {EmptyDict, {<<"Root", 1>>}}
    \cup {{<<"Root", 1>>, <<"Prev", p>>} : p \in PrevValues}

\* The bytes 'n' and 'f' of a table entry, and 'x' for any other byte at
\* entry[17]: an entry that is malformed.
ByteN == 110
ByteF == 102
ByteX == 120

\* The subsets of object numbers a section lists, as functions to a mark:
\* for a table the byte entry[17], for a stream the type field.
Listings(marks) == UNION {[ids -> marks] : ids \in SUBSET ObjNums}

\* The sections a file may hold at an offset. "table": the keyword xref, the
\* entries and the object after the keyword trailer (tobj "dict", "nodict":
\* an object that is no dictionary, "err": ParseObject fails). "stream": an
\* xref stream object with its entries and dictionary. "badtable": the keyword
\* xref and a subsection header that strconv.Atoi rejects, then any object.
\* "badstream": a stream
\* the loader rejects (not decompressible, no /W, zero entry size). "other":
\* anything else, which ParseObject reads as an object that is no stream.
Sections ==
    [kind : {"table"}, ents : Listings({ByteN, ByteF, ByteX}), tobj : {"dict"},
     dict : TrailerDicts]
    \cup [kind : {"table"}, ents : Listings({ByteN, ByteF, ByteX}),
          tobj : {"nodict", "err"}, dict : {EmptyDict}]
    \cup [kind : {"badtable"}, ents : {EmptyMap}, tobj : {"dict"},
          dict : TrailerDicts]
    \cup [kind : {"badtable"}, ents : {EmptyMap}, tobj : {"nodict", "err"},
          dict : {EmptyDict}]
    \cup [kind : {"stream"}, ents : Listings(0 .. 3), tobj : {"dict"},
          dict : TrailerDicts]
    \cup [kind : {"badstream"}, ents : {EmptyMap}, tobj : {"dict"},
          dict : TrailerDicts]
    \cup [kind : {"other"}, ents : {EmptyMap}, tobj : {"nodict"},
          dict : {EmptyDict}]

\* The header at offset 0: no xref keyword and no stream object.
HeaderSection ==
    [kind |-> "other", ents |-> EmptyMap, tobj |-> "nodict", dict |-> EmptyDict]

\* The ascending sequence of the elements of a finite set of integers.
RECURSIVE SortedSeq(_)
SortedSeq(S) ==
    IF S = {} THEN <<>>
    ELSE LET m == CHOOSE x \in S : \A y \in S : x <= y
         IN <<m>> \o SortedSeq(S \ {m})

\* The zero XRefEntry.
ZeroEntry ==
    [Offset |-> 0, Generation |-> 0, InUse |-> FALSE,
     Compressed |-> FALSE, StreamObjID |-> 0, IndexInStrm |-> 0]

\* The 20-byte entry a table at offset off holds for object id, as
\* parseXRefTable reads it: the offset and generation fields tell the
\* sections apart.
TableEntry(off, id, mark) ==
    [ZeroEntry EXCEPT !.Offset = 100 * off + id, !.Generation = off,
                      !.InUse = (mark = ByteN)]

\* The three fields a stream at offset off holds for object id.
StreamFields(off, id, type) == [t |-> type, f2 |-> 100 * off + id, f3 |-> off]

\* The entry loop of parseXRefTable over the ids a table lists, in order.
RECURSIVE TableLoop(_, _, _, _)
TableLoop(x, off, ents, ids) ==
    IF ids = <<>> THEN x
    ELSE LET id == Head(ids)
             x1 == IF id \notin DOMAIN x
                   THEN MapSet(x, id, TableEntry(off, id, ents[id]))
                   ELSE x
         IN TableLoop(x1, off, ents, Tail(ids))

\* The switch of parseXRefStream on an entry's type field; no case for the
\* other types.
StreamEntry(fs) ==
    CASE fs.t = 0 -> [ZeroEntry EXCEPT !.Generation = fs.f3]
      [] fs.t = 1 -> [ZeroEntry EXCEPT !.Offset = fs.f2, !.Generation = fs.f3,
                                       !.InUse = TRUE]
      [] fs.t = 2 -> [ZeroEntry EXCEPT !.Compressed = TRUE, !.StreamObjID = fs.f2,
                                       !.IndexInStrm = fs.f3, !.InUse = TRUE]

\* parseXRefStream's entry loop without its "exists" test: a later section
\* overwrites the entry of an earlier one.
RECURSIVE StreamLoopOverwrite(_, _, _, _)
StreamLoopOverwrite(x, off, ents, ids) ==
    IF ids = <<>> THEN x
    ELSE LET id == Head(ids)
             fs == StreamFields(off, id, ents[id])
             x1 == IF fs.t \notin {0, 1, 2} THEN x
                   ELSE MapSet(x, id, StreamEntry(fs))
         IN StreamLoopOverwrite(x1, off, ents, Tail(ids))

\* The entry loop of parseXRefStream.
RECURSIVE StreamLoop(_, _, _, _)
StreamLoop(x, off, ents, ids) ==
    IF ids = <<>> THEN x
    ELSE LET id == Head(ids)
             fs == StreamFields(off, id, ents[id])
             x1 == IF id \in DOMAIN x \/ fs.t \notin {0, 1, 2} THEN x
                   ELSE MapSet(x, id, StreamEntry(fs))
         IN StreamLoop(x1, off, ents, Tail(ids))

\* parseXRefTable on the table sec at offset off: the new doc.xref and
\* doc.trailer, and what follows: "return", "error" or a call of
\* loadXRefAt(prev). The /Prev followed is the one of doc.trailer.
ParseXRefTable(x, tr, off, sec) ==
    LET x1 == TableLoop(x, off, sec.ents, SortedSeq(DOMAIN sec.ents))
        tr1 == IF tr = NilDict /\ sec.tobj = "dict" THEN SomeDict(sec.dict) ELSE tr
        prev == GetInt(DictOf(tr1), "Prev")
    IN IF sec.tobj = "err"
       THEN [xref |-> x1, trailer |-> tr, next |-> "error", prev |-> 0]
       ELSE IF prev.ok /\ prev.v > 0
       THEN [xref |-> x1, trailer |-> tr1, next |-> "call", prev |-> prev.v]
       ELSE [xref |-> x1, trailer |-> tr1, next |-> "return", prev |-> 0]

\* parseXRefStream on the object at offset off. The /Prev followed is the
\* one of the stream's own dictionary.
ParseXRefStream(x, tr, off, sec) ==
    LET tr1 == IF tr = NilDict THEN SomeDict(sec.dict) ELSE tr
        x1 == StreamLoop(x, off, sec.ents, SortedSeq(DOMAIN sec.ents))
        prev == GetInt(sec.dict, "Prev")
    IN IF sec.kind = "other"
       THEN [xref |-> x, trailer |-> tr, next |-> "error", prev |-> 0]
       ELSE IF sec.kind = "badstream"
       THEN [xref |-> x, trailer |-> tr1, next |-> "error", prev |-> 0]
       ELSE IF prev.ok /\ prev.v > 0
       THEN [xref |-> x1, trailer |-> tr1, next |-> "call", prev |-> prev.v]
       ELSE [xref |-> x1, trailer |-> tr1, next |-> "return", prev |-> 0]

\* The state after Load's make(): nothing read, nothing loaded. startxref is
\* what findStartXRef will return: no offset, or one.
LoadInit ==
    /\ ExtIdle
    /\ file = EmptyMap
    /\ FiltIdle
    /\ ParseIdle
    /\ DocIdle
    /\ LayIdle
    /\ startxref \in [found : {FALSE}, off : {0}] \cup [found : {TRUE}, off : 0 .. DataLen]
    /\ xref = EmptyMap
    /\ trailer = NilDict
    /\ loadStack = <<>>
    /\ loadOrder = <<>>
    /\ loadPc = "new"

\* Load up to its call of loadXRefAt: validateHeader has passed (the header
\* is at offset 0) and findStartXRef has found an offset or has not.
LoadXRef ==
    /\ loadPc = "new"
    /\ IF ~startxref.found
       THEN loadPc' = "failed" /\ UNCHANGED loadStack
       ELSE loadPc' = "loading" /\ loadStack' = <<startxref.off>>
    /\ UNCHANGED <<file, startxref, xref, trailer, loadOrder>>
    /\ UNCHANGED notLoadVars

\* What doc.data holds at offset off: the header at 0, and at the other
\* offsets the section read there before or, at the first read, any section.
SectionAt(off) ==
    IF off = 0 THEN {HeaderSection}
    ELSE IF off \in DOMAIN file THEN {file[off]}
    ELSE Sections

\* One call of loadXRefAt(offset), offset being the innermost call's: the
\* bounds check, then parseXRefTable or parseXRefStream, which returns or
\* calls loadXRefAt again.
LoadXRefAt ==
    /\ loadPc = "loading"
    /\ UNCHANGED notLoadVars
    /\ LET off == loadStack[Len(loadStack)]
       IN IF off < 0 \/ off >= DataLen
          THEN /\ loadPc' = "failed"
               /\ UNCHANGED <<file, startxref, xref, trailer, loadStack, loadOrder>>
          ELSE \E sec \in SectionAt(off) :
                 LET r == IF sec.kind \in {"table", "badtable"}
                          THEN ParseXRefTable(xref, trailer, off, sec)
                          ELSE ParseXRefStream(xref, trailer, off, sec)
                 IN /\ file' = IF off = 0 THEN file ELSE MapSet(file, off, sec)
                    /\ xref' = r.xref
                    /\ trailer' = r.trailer
                    /\ loadOrder' = Append(loadOrder, off)
                    /\ CASE r.next = "error" ->
                              loadPc' = "failed" /\ UNCHANGED loadStack
                         [] r.next = "return" ->
                              loadPc' = "done" /\ UNCHANGED loadStack
                         [] r.next = "call" /\ Len(loadStack) < MaxLoadDepth ->
                              loadPc' = "loading"
                              /\ loadStack' = Append(loadStack, r.prev)
                         [] OTHER ->
                              loadPc' = "overflow" /\ UNCHANGED loadStack
                    /\ UNCHANGED startxref

LoadNext == LoadXRef \/ LoadXRefAt

SpecLoad == LoadInit /\ [][LoadNext]_vars

(***************************************************************************)
(* Claims about the loader                                                 *)
(***************************************************************************)

\* Whether the section read at offset off defines object id: a table entry,
\* or a stream entry of type 0, 1 or 2.
Defines(off, id) ==
    /\ off \in DOMAIN file
    /\ file[off].kind \in {"table", "stream"}
    /\ id \in DOMAIN file[off].ents
    /\ file[off].kind = "stream" => file[off].ents[id] \in {0, 1, 2}

\* The entry the section at offset off gives object id.
EntryIn(off, id) ==
    IF file[off].kind = "table" THEN TableEntry(off, id, file[off].ents[id])
    ELSE StreamEntry(StreamFields(off, id, file[off].ents[id]))

\* The positions of loadOrder whose section defines id.
Definers(id) == {i \in 1 .. Len(loadOrder) : Defines(loadOrder[i], id)}

\* ResolveRef's test for the references it answers with Null at once.
NoSuchObject(x, n) == n \notin DOMAIN x \/ ~x[n].InUse

\* C1: Load terminates on every input: no xref offset is loaded a second
\* time while /Prev is followed, and the chain of loadXRefAt calls never
\* exhausts the stack.
C1_NoOffsetLoadedTwice ==
    /\ \A i, j \in 1 .. Len(loadOrder) : i # j => loadOrder[i] # loadOrder[j]
    /\ loadPc # "overflow"

\* C4: xref precedence: during and after Load, doc.xref holds for every
\* object number the entry of the section discovered first among those that
\* define it, and nothing for a number no section defines; when that entry is
\* Free, ResolveRef answers Null.
C4_FirstSectionWins ==
    \A id \in ObjNums :
        IF Definers(id) = {} THEN id \notin DOMAIN xref
        ELSE LET first == CHOOSE i \in Definers(id) : \A j \in Definers(id) : i <= j
                 e == EntryIn(loadOrder[first], id)
             IN /\ id \in DOMAIN xref
                /\ xref[id] = e
                /\ ~e.InUse => NoSuchObject(xref, id)

\* Whether the section read at offset off is malformed: a subsection header
\* that is no pair of integers, or an entry that is none.
Malformed(off) ==
    \/ file[off].kind = "badtable"
    \/ file[off].kind = "table" /\ \E id \in DOMAIN file[off].ents : file[off].ents[id] = ByteX

\* C11: Load fails whenever the cross-reference data is invalid: a document
\* Load returns has read no malformed subsection, and its trailer has /Root.
\* (An offset outside the file fails in loadXRefAt.)
C11_InvalidXRefFails ==
    loadPc = "done" =>
        /\ \A off \in DOMAIN file : ~Malformed(off)
        /\ trailer # NilDict
        /\ HasKey(DictOf(trailer), "Root")

\* C4 witness: Load has returned, and an object is defined Free by the section
\* discovered first and in use by an older one.
C4_Witness ==
    /\ loadPc = "done"
    /\ \E id \in ObjNums : \E i, j \in Definers(id) :
          /\ i < j
          /\ loadOrder[i] # loadOrder[j]
          /\ ~EntryIn(loadOrder[i], id).InUse
          /\ EntryIn(loadOrder[j], id).InUse
          /\ ~xref[id].InUse

(***************************************************************************)
(* Object parser                                                           *)
(***************************************************************************)

\* The nesting limit of ParseObject.
maxNesting == 100

\* The byte 0, which isWhitespace counts as whitespace.
NUL == "NUL"

Digits == {"0", "1", "2", "3", "4", "5", "6", "7", "8", "9"}

DigitVal(c) ==
    CASE c = "0" -> 0 [] c = "1" -> 1 [] c = "2" -> 2 [] c = "3" -> 3
      [] c = "4" -> 4 [] c = "5" -> 5 [] c = "6" -> 6 [] c = "7" -> 7
      [] c = "8" -> 8 [] c = "9" -> 9

\* isDelim
isDelim(b) == b \in {"(", ")", "<", ">", "[", "]", "{", "}", "/", "%"}

\* isWhitespace
isWhitespace(b) == b \in {" ", "\t", "\r", "\n", "\f", NUL}

\* p.data[i] for a Go index i.
At(data, i) == data[i + 1]

\* The bytes data[from:to].
Slice(data, from, to) == [i \in 1 .. (to - from) |-> data[from + i]]

\* The inner loop of skipWhitespace on a comment: up to the end of the line.
RECURSIVE SkipComment(_, _)
SkipComment(data, pos) ==
    IF pos < Len(data) /\ At(data, pos) # "\n" /\ At(data, pos) # "\r"
    THEN SkipComment(data, pos + 1)
    ELSE pos

\* skipWhitespace: the position after spaces, tabs, CR, LF, FF and comments.
RECURSIVE skipWhitespace(_, _)
skipWhitespace(data, pos) ==
    IF pos >= Len(data) THEN pos
    ELSE IF At(data, pos) = "%" THEN skipWhitespace(data, SkipComment(data, pos))
    ELSE IF At(data, pos) \in {" ", "\t", "\r", "\n", "\f"}
    THEN skipWhitespace(data, pos + 1)
    ELSE pos

\* match: whether the bytes at pos are those of s.
match(data, pos, s) ==
    /\ pos + Len(s) <= Len(data)
    /\ Slice(data, pos, pos + Len(s)) = s

\* readToken: the position after a run of bytes that are neither whitespace
\* nor delimiters.
RECURSIVE readToken(_, _)
readToken(data, pos) ==
    IF pos < Len(data) /\ ~isWhitespace(At(data, pos)) /\ ~isDelim(At(data, pos))
    THEN readToken(data, pos + 1)
    ELSE pos

\* strconv.ParseInt(tok, 10, 64) succeeds: an optional sign and digits.
IsIntTok(tok) ==
    LET body == IF tok # <<>> /\ tok[1] \in {"+", "-"} THEN Tail(tok) ELSE tok
    IN body # <<>> /\ \A i \in 1 .. Len(body) : body[i] \in Digits

RECURSIVE DigitsVal(_)
DigitsVal(ds) ==
    IF ds = <<>> THEN 0
    ELSE 10 * DigitsVal(SubSeq(ds, 1, Len(ds) - 1)) + DigitVal(ds[Len(ds)])

\* The value strconv.ParseInt gives a token it accepts.
IntVal(tok) ==
    IF tok[1] = "-" THEN 0 - DigitsVal(Tail(tok))
    ELSE IF tok[1] = "+" THEN DigitsVal(Tail(tok))
    ELSE DigitsVal(tok)

\* strconv.ParseFloat(tok, 64) succeeds, for the tokens made of digits,
\* signs, dots and letters other than those of an exponent, "inf", "nan" or
\* a hexadecimal float: an optional sign, then digits with at most one dot
\* and at least one digit.
IsFloatTok(tok) ==
    LET body == IF tok # <<>> /\ tok[1] \in {"+", "-"} THEN Tail(tok) ELSE tok
    IN /\ \A i \in 1 .. Len(body) : body[i] \in Digits \cup {"."}
       /\ Cardinality({i \in 1 .. Len(body) : body[i] = "."}) <= 1
       /\ \E i \in 1 .. Len(body) : body[i] \in Digits

\* An Object: its type and the fields the model keeps. n counts the elements
\* of an Array and the assignments to a Dict; Length is the integer /Length
\* of a Dict or Stream (-1 without one); Stream is the payload.
Obj(type) ==
    [Type |-> type, Int |-> 0, Gen |-> 0, Name |-> <<>>, n |-> 0,
     Length |-> 0 - 1, Stream |-> <<>>]

\* What a parse function leaves: the object and p.pos.
Parsed(obj, pos) == [obj |-> obj, pos |-> pos]

\* parseString from the '(' at pos: the position after the balanced ')'.
\* depth is the count of open parentheses.
RECURSIVE StringLoop(_, _, _)
StringLoop(data, pos, depth) ==
    IF ~(pos < Len(data) /\ depth > 0) THEN pos
    ELSE LET c == At(data, pos)
         IN IF c = "\\"
            THEN IF pos + 1 >= Len(data) THEN pos + 1
                 ELSE LET esc == At(data, pos + 1)
                          p2 == pos + 2
                          o1 == IF p2 < Len(data) /\ At(data, p2) \in Digits \ {"8", "9"}
                                THEN p2 + 1 ELSE p2
                          o2 == IF o1 > p2 /\ o1 < Len(data)
                                   /\ At(data, o1) \in Digits \ {"8", "9"}
                                THEN o1 + 1 ELSE o1
                      IN IF esc = "\r"
                         THEN StringLoop(data,
                                IF p2 < Len(data) /\ At(data, p2) = "\n"
                                THEN p2 + 1 ELSE p2, depth)
                         ELSE IF esc \in Digits \ {"8", "9"}
                         THEN StringLoop(data, o2, depth)
                         ELSE StringLoop(data, p2, depth)
            ELSE IF c = "(" THEN StringLoop(data, pos + 1, depth + 1)
            ELSE IF c = ")" THEN StringLoop(data, pos + 1, depth - 1)
            ELSE StringLoop(data, pos + 1, depth)

parseString(data, pos) == Parsed(Obj("String"), StringLoop(data, pos + 1, 1))

\* parseHexString from the '<' at pos: the position after the '>'.
RECURSIVE HexLoop(_, _)
HexLoop(data, pos) ==
    IF ~(pos < Len(data) /\ At(data, pos) # ">") THEN pos
    ELSE LET p1 == skipWhitespace(data, pos)
         IN IF p1 >= Len(data) \/ At(data, p1) = ">" THEN p1
            ELSE IF p1 + 1 < Len(data) /\ At(data, p1 + 1) # ">"
            THEN HexLoop(data, p1 + 2)
            ELSE HexLoop(data, p1 + 1)

parseHexString(data, pos) ==
    LET e == HexLoop(data, pos + 1)
    IN Parsed(Obj("String"), IF e < Len(data) THEN e + 1 ELSE e)

\* parseName from the '/' at pos; the name's bytes, #XX escapes left as read.
parseName(data, pos) ==
    LET e == readToken(data, pos + 1)
    IN Parsed([Obj("Name") EXCEPT !.Name = Slice(data, pos + 1, e)], e)

\* parseNumberOrRef without "p.pos = savedAfterN": a lookahead that fails
\* leaves the cursor where it stopped.
parseNumberOrRefNoRestore(data, pos) ==
    LET e1 == readToken(data, pos)
        numStr == Slice(data, pos, e1)
        errN == ~IsIntTok(numStr)
        p2 == skipWhitespace(data, e1)
        e2 == readToken(data, p2)
        genStr == Slice(data, p2, e2)
        p3 == skipWhitespace(data, e2)
        isRef == /\ ~errN
                 /\ IsIntTok(genStr)
                 /\ p3 < Len(data) /\ At(data, p3) = "R"
                 /\ \/ p3 + 1 >= Len(data)
                    \/ isWhitespace(At(data, p3 + 1))
                    \/ isDelim(At(data, p3 + 1))
        stop == IF errN THEN e1 ELSE IF IsIntTok(genStr) THEN p3 ELSE e2
    IN IF isRef
       THEN Parsed([Obj("Ref") EXCEPT !.Int = IntVal(numStr), !.Gen = IntVal(genStr)],
                   p3 + 1)
       ELSE IF ~errN THEN Parsed([Obj("Int") EXCEPT !.Int = IntVal(numStr)], stop)
       ELSE IF IsFloatTok(numStr) THEN Parsed(Obj("Float"), stop)
       ELSE Parsed(Obj("Null"), stop)

\* parseNumberOrRef: "N G R" is a reference when R ends the input or is
\* followed by whitespace or a delimiter; otherwise the first token alone is
\* an Integer, a Real or Null, and the cursor is left after it.
parseNumberOrRef(data, pos) ==
    LET e1 == readToken(data, pos)
        numStr == Slice(data, pos, e1)
        errN == ~IsIntTok(numStr)
        p2 == skipWhitespace(data, e1)
        e2 == readToken(data, p2)
        genStr == Slice(data, p2, e2)
        p3 == skipWhitespace(data, e2)
        isRef == /\ ~errN
                 /\ IsIntTok(genStr)
                 /\ p3 < Len(data) /\ At(data, p3) = "R"
                 /\ \/ p3 + 1 >= Len(data)
                    \/ isWhitespace(At(data, p3 + 1))
                    \/ isDelim(At(data, p3 + 1))
    IN IF isRef
       THEN Parsed([Obj("Ref") EXCEPT !.Int = IntVal(numStr), !.Gen = IntVal(genStr)],
                   p3 + 1)
       ELSE IF IsFloatTok(numStr)
       THEN IF ~errN THEN Parsed([Obj("Int") EXCEPT !.Int = IntVal(numStr)], e1)
            ELSE Parsed(Obj("Float"), e1)
       ELSE IF ~errN THEN Parsed([Obj("Int") EXCEPT !.Int = IntVal(numStr)], e1)
       ELSE Parsed(Obj("Null"), e1)

\* The case of ParseObject's switch the byte c at pos selects.
Dispatch(data, pos) ==
    LET c == At(data, pos)
    IN CASE c = "n" /\ match(data, pos, <<"n", "u", "l", "l">>) -> "null"
         [] c = "t" /\ match(data, pos, <<"t", "r", "u", "e">>) -> "true"
         [] c = "f" /\ match(data, pos, <<"f", "a", "l", "s", "e">>) -> "false"
         [] c = "(" -> "string"
         [] c = "<" /\ pos + 1 < Len(data) /\ At(data, pos + 1) = "<" -> "dict"
         [] c = "<" -> "hex"
         [] c = "/" -> "name"
         [] c = "[" -> "array"
         [] c \in {"+", "-", "."} \cup Digits -> "number"
         [] OTHER -> "default"

\* What ParseObject returns in the cases that call neither parseArray nor
\* parseDict. The default case returns Null and leaves the cursor in place.
ParseLeaf(data, pos) ==
    LET form == Dispatch(data, pos)
    IN CASE form = "null" -> Parsed(Obj("Null"), pos + 4)
         [] form = "true" -> Parsed(Obj("Bool"), pos + 4)
         [] form = "false" -> Parsed(Obj("Bool"), pos + 5)
         [] form = "string" -> parseString(data, pos)
         [] form = "hex" -> parseHexString(data, pos)
         [] form = "name" -> parseName(data, pos)
         [] form = "number" -> parseNumberOrRef(data, pos)
         [] form = "default" -> Parsed(Obj("Null"), pos)

\* bytes.Index(data[from:], s): the first index of s at or after from,
\* relative to from, or -1.
IndexFrom(data, from, s) ==
    LET hits == {i \in from .. Len(data) : match(data, i, s)}
    IN IF hits = {} THEN 0 - 1
       ELSE (CHOOSE i \in hits : \A j \in hits : i <= j) - from

KeyLength == <<"L", "e", "n", "g", "t", "h">>
KwStream == <<"s", "t", "r", "e", "a", "m">>
KwEndstream == <<"e", "n", "d", "s", "t", "r", "e", "a", "m">>

\* The end of parseDict, after the loop over the entries has stopped at pos:
\* a Dict, or with the keyword stream a Stream whose payload has the integer
\* /Length when that fits the data, and otherwise ends at the next endstream.
DictTail(data, pos, n, length) ==
    LET p1 == skipWhitespace(data, pos)
        p2 == p1 + Len(KwStream)
        p3 == IF p2 < Len(data) /\ At(data, p2) = "\r" THEN p2 + 1 ELSE p2
        streamStart == IF p3 < Len(data) /\ At(data, p3) = "\n" THEN p3 + 1 ELSE p3
        found == IndexFrom(data, streamStart, KwEndstream)
        end == IF length >= 0 /\ streamStart + length <= Len(data) THEN length
               ELSE IF found < 0 THEN Len(data) - streamStart
               ELSE found
        p4 == skipWhitespace(data, streamStart + end)
        p5 == IF match(data, p4, KwEndstream) THEN p4 + Len(KwEndstream) ELSE p4
    IN IF ~match(data, p1, KwStream)
       THEN Parsed([Obj("Dict") EXCEPT !.n = n, !.Length = length], p1)
       ELSE Parsed([Obj("Stream") EXCEPT !.n = n, !.Length = length,
                       !.Stream = Slice(data, streamStart, streamStart + end)], p5)

\* The longest input of the exhaustive family.
MaxLen == 3

\* How far below and above maxNesting the nested inputs go.
NestSlack == 2

\* The elements after which an array that never ends exhausts the memory.
MaxElems == 4

\* The bytes of the exhaustive family: the delimiters of the object forms, a
\* digit, a space and a letter that starts no object form.
ParseAlphabet == {"[", "]", "<", ">", "(", ")", "/", "1", " ", "a"}

ShortInputs == UNION {[1 .. n -> ParseAlphabet] : n \in 0 .. MaxLen}

\* s repeated k times.
RECURSIVE Repeat(_, _)
Repeat(s, k) == IF k = 0 THEN <<>> ELSE s \o Repeat(s, k - 1)

\* What the innermost container of a nested input holds.
Leaves ==
    {<<>>, <<"1">>, <<"n", "u", "l", "l">>, <<"t", "r", "u", "e">>,
     <<"f", "a", "l", "s", "e">>, <<"(", "a", ")">>, <<"<", "1", ">">>,
     <<"/", "a">>, <<"1", " ", "0", " ", "R">>, <<"1", ".", "5">>}

\* k nested arrays, and k nested dictionaries each the value of the key /K.
NestedArrays(k, leaf) == Repeat(<<"[">>, k) \o leaf \o Repeat(<<"]">>, k)
NestedDicts(k, leaf) ==
    Repeat(<<"<", "<", "/", "K">>, k) \o leaf \o Repeat(<<">", ">">>, k)

NestedInputs ==
    {NestedArrays(k, leaf) :
        k \in (maxNesting - NestSlack) .. (maxNesting + NestSlack), leaf \in Leaves}
    \cup {NestedDicts(k, leaf) :
        k \in (maxNesting - NestSlack) .. (maxNesting + NestSlack), leaf \in Leaves}

\* The longest stream body, and the largest declared /Length that may lie
\* inside the file; PastEnd, the largest length of two digits, is beyond
\* every file of the family.
MaxBody == 2
MaxDeclared == 4
PastEnd == 10 * 9 + 9

\* The decimal digit of d.
DigitOf(d) == CHOOSE c \in Digits : DigitVal(c) = d

\* The dictionary and keyword before a stream body with /Length n.
StreamHead(n) ==
    <<"<", "<", "/">> \o KeyLength
    \o <<" ", DigitOf(n \div 10), DigitOf(n % 10), ">", ">">> \o KwStream
    \o <<"\n">>

\* Streams: a declared /Length, a body that holds no endstream, the keyword
\* endstream and what follows it in the file: nothing, or more bytes.
StreamBodies == UNION {[1 .. n -> {"a", "b"}] : n \in 0 .. MaxBody}
StreamRests == {<<>>, <<"\n">>, <<"\n", "x", "y", "z">>}
StreamInputs ==
    {StreamHead(n) \o body \o KwEndstream \o rest :
        n \in (0 .. MaxDeclared) \cup {PastEnd}, body \in StreamBodies, rest \in StreamRests}

\* NewParser(data, pos) for the inputs of the families; the short inputs
\* start at every offset, before and after the data included.
ParseInit ==
    /\ ExtIdle
    /\ LoadIdle
    /\ FiltIdle
    /\ DocIdle
    /\ LayIdle
    /\ \/ pdata \in ShortInputs /\ ppos \in (0 - 1) .. (Len(pdata) + 1)
       \/ pdata \in NestedInputs /\ ppos = 0
       \/ pdata \in StreamInputs /\ ppos = 0
    /\ pdepth = 0
    /\ pstack = <<>>
    /\ ppc = "object"
    /\ presult = <<>>

\* A call of parseArray or parseDict in progress: the elements read so far,
\* and for a dictionary the key read last and the integer /Length.
Frame(fn) == [fn |-> fn, n |-> 0, key |-> <<>>, length |-> 0 - 1]

\* The call stack after the innermost call has got obj back from ParseObject:
\* arr = append(arr, obj), or d[key] = obj.
Append1(stack, obj) ==
    LET top == stack[Len(stack)]
    IN IF top.fn = "array" THEN [stack EXCEPT ![Len(stack)].n = top.n + 1]
       ELSE [stack EXCEPT ![Len(stack)].n = top.n + 1,
                          ![Len(stack)].length =
                              IF top.key # KeyLength THEN top.length
                              ELSE IF obj.Type = "Int" THEN obj.Int ELSE 0 - 1]

\* ParseObject returns obj with the cursor at pos to the call below it on
\* the stack, or to the caller of the outermost ParseObject.
Return(stack, obj, pos) ==
    /\ ppos' = pos
    /\ IF stack = <<>>
       THEN pstack' = stack /\ ppc' = "done" /\ presult' = <<obj>>
       ELSE /\ pstack' = Append1(stack, obj)
            /\ ppc' = stack[Len(stack)].fn
            /\ UNCHANGED presult

\* ParseObject at the nesting limit: the error goes to the caller.
ParseObjectNesting ==
    /\ ppc = "object"
    /\ pdepth > maxNesting
    /\ ppc' = "unwind"
    /\ UNCHANGED <<pdata, ppos, pdepth, pstack, presult>>
    /\ UNCHANGED notParseVars

\* ParseObject with the cursor before the data: skipWhitespace indexes
\* p.data out of range and the call panics; the deferred p.depth-- runs.
ParseObjectPanic ==
    /\ ppc = "object"
    /\ pdepth <= maxNesting
    /\ ppos < 0
    /\ ppc' = "panic"
    /\ UNCHANGED <<pdata, ppos, pdepth, pstack, presult>>
    /\ UNCHANGED notParseVars

\* ParseObject in the cases that return at once: Null at the end of the
\* data, a keyword, a string, a name, a number or reference, and Null for a
\* byte that starts none of them. p.depth++ and the deferred p.depth--
\* cancel.
ParseObjectLeaf ==
    /\ ppc = "object"
    /\ pdepth <= maxNesting
    /\ ppos >= 0
    /\ LET p1 == skipWhitespace(pdata, ppos)
       IN IF p1 >= Len(pdata)
          THEN Return(pstack, Obj("Null"), p1)
          ELSE /\ Dispatch(pdata, p1) \notin {"array", "dict"}
               /\ Return(pstack, ParseLeaf(pdata, p1).obj, ParseLeaf(pdata, p1).pos)
    /\ UNCHANGED <<pdata, pdepth>>
    /\ UNCHANGED notParseVars

\* ParseObject on '[': p.depth++, and parseArray consumes the '['.
ParseObjectArray ==
    /\ ppc = "object"
    /\ pdepth <= maxNesting
    /\ ppos >= 0
    /\ LET p1 == skipWhitespace(pdata, ppos)
       IN /\ p1 < Len(pdata)
          /\ Dispatch(pdata, p1) = "array"
          /\ ppos' = p1 + 1
    /\ pdepth' = pdepth + 1
    /\ pstack' = Append(pstack, Frame("array"))
    /\ ppc' = "array"
    /\ UNCHANGED <<pdata, presult>>
    /\ UNCHANGED notParseVars

\* ParseObject on '<<': p.depth++, and parseDict consumes the '<<'.
ParseObjectDict ==
    /\ ppc = "object"
    /\ pdepth <= maxNesting
    /\ ppos >= 0
    /\ LET p1 == skipWhitespace(pdata, ppos)
       IN /\ p1 < Len(pdata)
          /\ Dispatch(pdata, p1) = "dict"
          /\ ppos' = p1 + 2
    /\ pdepth' = pdepth + 1
    /\ pstack' = Append(pstack, Frame("dict"))
    /\ ppc' = "dict"
    /\ UNCHANGED <<pdata, presult>>
    /\ UNCHANGED notParseVars

\* The stack without its innermost call.
Pop(stack) == SubSeq(stack, 1, Len(stack) - 1)

\* One turn of parseArray's loop that calls ParseObject for an element.
ParseArrayElem ==
    /\ ppc = "array"
    /\ pstack[Len(pstack)].n < MaxElems
    /\ LET p1 == skipWhitespace(pdata, ppos)
       IN /\ p1 < Len(pdata)
          /\ At(pdata, p1) # "]"
          /\ ppos' = p1
    /\ ppc' = "object"
    /\ UNCHANGED <<pdata, pdepth, pstack, presult>>
    /\ UNCHANGED notParseVars

\* The turn of parseArray's loop that breaks, at the end of the data or on
\* ']': parseArray and the ParseObject that called it return the array.
ParseArrayEnd ==
    /\ ppc = "array"
    /\ LET p1 == skipWhitespace(pdata, ppos)
           top == pstack[Len(pstack)]
       IN /\ IF p1 >= Len(pdata) THEN TRUE ELSE At(pdata, p1) = "]"
          /\ Return(Pop(pstack), [Obj("Array") EXCEPT !.n = top.n],
                    IF p1 >= Len(pdata) THEN p1 ELSE p1 + 1)
    /\ pdepth' = pdepth - 1
    /\ UNCHANGED pdata
    /\ UNCHANGED notParseVars

\* Whether parseDict's loop breaks at p1: the end of the data, or '>>'.
DictBreaks(data, p1) ==
    \/ p1 >= Len(data)
    \/ p1 + 1 < Len(data) /\ At(data, p1) = ">" /\ At(data, p1 + 1) = ">"

\* One turn of parseDict's loop on a byte that starts no key: skipped.
ParseDictSkip ==
    /\ ppc = "dict"
    /\ LET p1 == skipWhitespace(pdata, ppos)
       IN /\ ~DictBreaks(pdata, p1)
          /\ At(pdata, p1) # "/"
          /\ ppos' = p1 + 1
    /\ UNCHANGED <<pdata, pdepth, pstack, ppc, presult>>
    /\ UNCHANGED notParseVars

\* One turn of parseDict's loop on a key: parseName, then ParseObject for
\* the value.
ParseDictKey ==
    /\ ppc = "dict"
    /\ LET p1 == skipWhitespace(pdata, ppos)
       IN /\ ~DictBreaks(pdata, p1)
          /\ At(pdata, p1) = "/"
          /\ ppos' = parseName(pdata, p1).pos
          /\ pstack' = [pstack EXCEPT ![Len(pstack)].key = parseName(pdata, p1).obj.Name]
    /\ ppc' = "object"
    /\ UNCHANGED <<pdata, pdepth, presult>>
    /\ UNCHANGED notParseVars

\* The turn of parseDict's loop that breaks, and the rest of parseDict:
\* parseDict and the ParseObject that called it return the Dict or Stream.
ParseDictEnd ==
    /\ ppc = "dict"
    /\ LET p1 == skipWhitespace(pdata, ppos)
           top == pstack[Len(pstack)]
           r == DictTail(pdata, IF p1 >= Len(pdata) THEN p1 ELSE p1 + 2,
                         top.n, top.length)
       IN /\ DictBreaks(pdata, p1)
          /\ Return(Pop(pstack), r.obj, r.pos)
    /\ pdepth' = pdepth - 1
    /\ UNCHANGED pdata
    /\ UNCHANGED notParseVars

\* An error on its way out: parseArray or parseDict returns it, and so does
\* the ParseObject that called it, after its deferred p.depth--.
ParseUnwind ==
    /\ ppc = "unwind"
    /\ pstack # <<>>
    /\ pstack' = Pop(pstack)
    /\ pdepth' = pdepth - 1
    /\ ppc' = IF Len(pstack) = 1 THEN "failed" ELSE "unwind"
    /\ UNCHANGED <<pdata, ppos, presult>>
    /\ UNCHANGED notParseVars

ParseNext ==
    \/ ParseObjectNesting
    \/ ParseObjectPanic
    \/ ParseObjectLeaf
    \/ ParseObjectArray
    \/ ParseObjectDict
    \/ ParseArrayElem
    \/ ParseArrayEnd
    \/ ParseDictSkip
    \/ ParseDictKey
    \/ ParseDictEnd
    \/ ParseUnwind

SpecParse == ParseInit /\ [][ParseNext]_vars

(***************************************************************************)
(* Object parser: properties                                               *)
(***************************************************************************)

\* The byte ParseObject dispatches on, for a call that gets as far as the
\* dispatch.
AtUnknownToken ==
    /\ ppc = "object"
    /\ pdepth <= maxNesting
    /\ ppos >= 0
    /\ skipWhitespace(pdata, ppos) < Len(pdata)
    /\ Dispatch(pdata, skipWhitespace(pdata, ppos)) = "default"

\* C2: ParseObject terminates on every input because a byte that starts no
\* object is skipped: the call that meets such a byte leaves the cursor
\* beyond it, so that "[ abc ]" and "[ ) ]" come to their end.
C2_UnknownTokenSkipped ==
    [][AtUnknownToken => ppos' > skipWhitespace(pdata, ppos)]_vars

\* The containers opened one inside the other in a nested input.
NestingOf(data) ==
    Cardinality({i \in 1 .. Len(data) : data[i] = "["})
    + Cardinality({i \in 1 .. Len(data) - 1 : data[i] = "<" /\ data[i + 1] = "<"})

\* C10: k nested arrays or dictionaries parse when k <= 100 and give the
\* nesting error when k > 100, k = 101 included, and either way the depth
\* counter is back at its value from before the call.
C10_NestingCapped ==
    (pdata \in NestedInputs /\ ppc \in {"done", "failed"}) =>
        /\ pdepth = 0
        /\ NestingOf(pdata) <= maxNesting => ppc = "done"
        /\ NestingOf(pdata) > maxNesting => ppc = "failed"

\* Where the body of a stream input starts, and the bytes from there up to
\* the next endstream.
BodyStart == Len(StreamHead(0))
UpToEndstream(data) ==
    Slice(data, BodyStart, BodyStart + IndexFrom(data, BodyStart, KwEndstream))

\* C12: an incorrect integer /Length is tolerated: whether the declared
\* length is right, too short, too long inside the file or past its end, the
\* parsed payload is the bytes from the start of the body up to the next
\* endstream.
C12_LengthFallback ==
    (pdata \in StreamInputs /\ ppc = "done") =>
        /\ presult[1].Type = "Stream"
        /\ presult[1].Stream = UpToEndstream(pdata)

(***************************************************************************)
(* Loaded document: ResolveRef, Pages, and the Extractor                   *)
(***************************************************************************)

\* The depth of calls at which the goroutine stack is exhausted.
MaxStack == 10

\* The object numbers of the documents.
DocNums == {1, 2, 3, 4, 5}

\* The value of a key that holds an indirect reference: absent, or "n 0 R".
NoRef == <<>>
Ref(n) == <<n>>

\* The value of /Length: absent, an integer, or an indirect reference.
NoLength == [t |-> "none", n |-> 0]
IntLength(v) == [t |-> "int", n |-> v]
RefLength(n) == [t |-> "ref", n |-> n]

\* A Dict of an object, as the keys the resolver, the page walk and the
\* extractor read: /Type, /Pages, /Kids (an array of references; without
\* elements when the key is absent), /Contents and /Length. A nil Dict has
\* none of them.
NilObjDict ==
    [Type |-> "", Pages |-> NoRef, Kids |-> <<>>, Contents |-> NoRef,
     Length |-> NoLength]

\* An Object: Type "Null", "Int", "Dict" or "Stream", and "Bad" for bytes
\* resolveAtOffset gets no object from. Stream is what the raw stream data
\* are: "text" (content that shows a string), "blank" (content that shows
\* nothing), "objstm" (an object stream) or "corrupt" (not decodable).
Object(type) == [Type |-> type, Int |-> 0, Dict |-> NilObjDict, Stream |-> ""]

NullObject == Object("Null")
IntObject(v) == [Object("Int") EXCEPT !.Int = v]
DictObject(d) == [Object("Dict") EXCEPT !.Dict = d]
StreamObject(d, data) == [Object("Stream") EXCEPT !.Dict = d, !.Stream = data]
BadObject == Object("Bad")

CatalogDict(pages) == [NilObjDict EXCEPT !.Type = "Catalog", !.Pages = pages]
NodeDict(kids) == [NilObjDict EXCEPT !.Type = "Pages", !.Kids = kids]
PageDict(contents) == [NilObjDict EXCEPT !.Type = "Page", !.Contents = contents]
StreamDict(length) == [NilObjDict EXCEPT !.Length = length]

\* An object number's xref entry and the object at its offset; object n, when
\* it is stored at an offset, is stored at offset n.
Slot(entry, obj) == [entry |-> entry, at |-> obj]
FreeSlot == Slot(ZeroEntry, BadObject)
StoredAt(n, obj) == Slot([ZeroEntry EXCEPT !.Offset = n, !.InUse = TRUE], obj)
CompressedIn(c) ==
    Slot([ZeroEntry EXCEPT !.Compressed = TRUE, !.StreamObjID = c, !.InUse = TRUE],
         BadObject)

\* len(doc.data): the objects lie at the offsets 1 .. 5.
DocLen == 6

\* The decoded data of the documents' object stream: the pair "4 0" and, at
\* /First, the integer 7.
ObjStm == [N |-> 1, First |-> 4, pairs |-> <<<<4, 0>>>>, len |-> 5, obj |-> IntObject(7)]

\* The objects of the documents. Object 5 is what the trailer's /Root refers
\* to, object 1 what the catalog's /Pages refers to; objects 2 and 3 are
\* page-tree nodes and pages, object 3 may also be an object stream, bytes
\* that are no object, or lie beyond the data, and object 4 is a content
\* stream, stored at an offset or compressed.
Slots ==
    [n \in DocNums |->
        CASE n = 1 -> {StoredAt(1, DictObject(NodeDict(k))) :
                          k \in {<<2>>, <<2, 3>>, <<3, 2>>, <<1>>, <<2, 1>>}}
                      \cup {StoredAt(1, IntObject(7))}
          [] n = 2 -> {StoredAt(2, DictObject(PageDict(Ref(4)))),
                       StoredAt(2, DictObject(NodeDict(<<3>>))),
                       StoredAt(2, DictObject(NodeDict(<<1>>))),
                       FreeSlot}
          [] n = 3 -> {StoredAt(3, DictObject(PageDict(Ref(4)))),
                       StoredAt(3, DictObject(PageDict(Ref(3)))),
                       StoredAt(3, StreamObject(StreamDict(IntLength(5)), "objstm")),
                       StoredAt(3, BadObject),
                       StoredAt(DocLen, BadObject)}
          [] n = 4 -> {StoredAt(4, StreamObject(StreamDict(IntLength(5)), "text")),
                       StoredAt(4, StreamObject(StreamDict(IntLength(5)), "corrupt")),
                       StoredAt(4, StreamObject(StreamDict(RefLength(4)), "text")),
                       StoredAt(4, StreamObject(StreamDict(RefLength(3)), "blank")),
                       CompressedIn(3),
                       CompressedIn(4)}
          [] n = 5 -> {StoredAt(5, DictObject(CatalogDict(Ref(1)))),
                       StoredAt(5, DictObject(CatalogDict(NoRef))),
                       FreeSlot}]

\* The trailers: with /Root and without.
DocTrailers == {SomeDict({<<"Root", 5>>}), SomeDict(EmptyDict)}

\* The documents: every choice of the objects 1 to 4 under a trailer and a
\* catalog that lead to the page tree, and a two-page document under a
\* trailer without /Root, under a /Root that is Free and under a catalog
\* without /Pages.
Documents ==
    {[trailer |-> SomeDict({<<"Root", 5>>}),
      slots |-> <<s1, s2, s3, s4, StoredAt(5, DictObject(CatalogDict(Ref(1))))>>] :
        s1 \in Slots[1], s2 \in Slots[2], s3 \in Slots[3], s4 \in Slots[4]}
    \cup
    {[trailer |-> t,
      slots |-> <<StoredAt(1, DictObject(NodeDict(<<2, 3>>))),
                  StoredAt(2, DictObject(PageDict(Ref(4)))),
                  StoredAt(3, DictObject(PageDict(Ref(3)))),
                  StoredAt(4, StreamObject(StreamDict(IntLength(5)), "text")),
                  s5>>] :
        t \in DocTrailers, s5 \in Slots[5]}

\* What a call returns: nothing yet.
Ret(op, n) ==
    [op |-> op, n |-> n, done |-> FALSE, hit |-> FALSE, obj |-> NullObject,
     err |-> "", pages |-> <<>>, texts |-> <<>>, text |-> "", rotation |-> 0]

\* The state after a successful Load of one of the documents.
DocInit ==
    /\ ExtIdle
    /\ ParseIdle
    /\ FiltIdle
    /\ LayIdle
    /\ file = EmptyMap
    /\ startxref = [found |-> TRUE, off |-> 0]
    /\ loadStack = <<>>
    /\ loadOrder = <<>>
    /\ loadPc = "done"
    /\ \E doc \in Documents :
          /\ trailer = doc.trailer
          /\ xref = [n \in DocNums |-> doc.slots[n].entry]
          /\ docData = [n \in DocNums |-> doc.slots[n].at]
    /\ cache = EmptyMap
    /\ dpc = "idle"
    /\ dret = Ret("none", 0)

\* What ResolveRef and the functions it calls return: the object, doc.cache,
\* whether it is an error, and whether the stack was exhausted instead.
Res(obj, c, err, over) == [obj |-> obj, cache |-> c, err |-> err, over |-> over]

\* The cache with obj stored under the object number that follows n.
CachedUnderNext(c, n, obj) == MapSet(c, (n % 5) + 1, obj)

\* doc.cache[ref.Number] = obj
Cached(c, n, obj) == MapSet(c, n, obj)

\* The object ParseObject reads at position pos of the decoded data of the
\* container strm: in an object stream the object at /First; content begins
\* with an operator, which ParseObject reads as Null.
ObjectInStream(strm, pos) ==
    IF strm.Stream = "objstm" /\ pos = ObjStm.First THEN ObjStm.obj ELSE NullObject

\* offsets[id] for the pairs read from the container's header.
OffsetsOf(strm) == IF strm.Stream = "objstm" THEN {ObjStm.pairs[i] : i \in 1 .. ObjStm.N} ELSE {}

\* resolveCompressed's position of the object, given the container.
ObjPos(strm, entry) ==
    LET first == IF strm.Stream = "objstm" THEN ObjStm.First ELSE 0
        len == IF strm.Stream = "objstm" THEN ObjStm.len ELSE 0
        off == IF HasKey(OffsetsOf(strm), entry.StreamObjID)
               THEN Lookup(OffsetsOf(strm), entry.StreamObjID)
               ELSE entry.IndexInStrm
    IN IF first + off > len THEN first + entry.IndexInStrm ELSE first + off

\* E(x) for the value x: a call's result under a name.
Bind(x, E(_)) == E(x)

\* ResolveRef, resolveAtOffset and resolveCompressed call one another; Resolving
\* is the three of them, fn naming the function called with doc.cache = c
\* at depth d: ResolveRef(arg) with arg an object number,
\* resolveAtOffset(arg) with arg an offset, resolveCompressed(arg) with arg
\* an entry. The second parse resolveAtOffset makes of a stream with an
\* indirect /Length reads the same bytes as the first and returns the same
\* object.
RECURSIVE Resolving(_, _, _, _)
Resolving(fn, c, arg, d) ==
    IF d > MaxStack THEN Res(NullObject, c, FALSE, TRUE)
    ELSE CASE fn = "ResolveRef" ->
              IF arg \in DOMAIN c THEN Res(c[arg], c, FALSE, FALSE)
              ELSE IF NoSuchObject(xref, arg) THEN Res(NullObject, c, FALSE, FALSE)
              ELSE Bind(IF xref[arg].Compressed
                        THEN Resolving("resolveCompressed", c, xref[arg], d + 1)
                        ELSE Resolving("resolveAtOffset", c, xref[arg].Offset, d + 1),
                        LAMBDA r :
                          IF r.over THEN r
                          ELSE IF r.err THEN Res(NullObject, r.cache, FALSE, FALSE)
                          ELSE Res(r.obj, Cached(r.cache, arg, r.obj), FALSE, FALSE))
           [] fn = "resolveAtOffset" ->
              IF arg < 0 \/ arg >= DocLen THEN Res(NullObject, c, TRUE, FALSE)
              ELSE IF arg \notin DOMAIN docData THEN Res(NullObject, c, TRUE, FALSE)
              ELSE IF docData[arg].Type = "Bad" THEN Res(NullObject, c, TRUE, FALSE)
              ELSE IF docData[arg].Type = "Stream" /\ docData[arg].Dict.Length.t = "ref"
              THEN Bind(Resolving("ResolveRef", c, docData[arg].Dict.Length.n, d + 1),
                        LAMBDA lenObj :
                          IF lenObj.over THEN lenObj
                          ELSE Res(docData[arg], lenObj.cache, FALSE, FALSE))
              ELSE Res(docData[arg], c, FALSE, FALSE)
           [] fn = "resolveCompressed" ->
              Bind(Resolving("ResolveRef", c, arg.StreamObjID, d + 1),
                   LAMBDA strmObj :
                     IF strmObj.over THEN strmObj
                     ELSE IF strmObj.obj.Type # "Stream"
                     THEN Res(NullObject, strmObj.cache, TRUE, FALSE)
                     ELSE IF strmObj.obj.Stream = "corrupt"
                     THEN Res(NullObject, strmObj.cache, TRUE, FALSE)
                     ELSE Res(ObjectInStream(strmObj.obj, ObjPos(strmObj.obj, arg)),
                              strmObj.cache, FALSE, FALSE))

\* ResolveRef(ref) for the object number n.
ResolveRef(c, n, d) == Resolving("ResolveRef", c, n, d)

\* What Catalog, Pages and the Extractor's functions return: the value,
\* doc.cache, the error ("" for nil), and whether the stack was exhausted.
Out(val, c, err, over) == [val |-> val, cache |-> c, err |-> err, over |-> over]

\* Catalog(): the catalog Dict.
Catalog(c, d) ==
    IF ~HasKey(DictOf(trailer), "Root")
    THEN Out(NilObjDict, c, "no /Root in trailer", FALSE)
    ELSE Bind(ResolveRef(c, Lookup(DictOf(trailer), "Root"), d + 1),
              LAMBDA root :
                IF root.over THEN Out(NilObjDict, c, "", TRUE)
                ELSE IF root.obj.Type # "Dict"
                THEN Out(NilObjDict, root.cache, "root is not a dict", FALSE)
                ELSE Out(root.obj.Dict, root.cache, "", FALSE))

\* collectPages(node, pages) with kids = <<>>, and the loop of
\* collectPages(node, pages) over the kids left when loop is TRUE: the pages
\* after it.
RECURSIVE Collecting(_, _, _, _, _, _)
Collecting(loop, c, node, kids, pages, d) ==
    IF ~loop
    THEN IF d > MaxStack THEN Out(pages, c, "", TRUE)
         ELSE IF node.Type = "Page" THEN Out(Append(pages, node), c, "", FALSE)
         ELSE Collecting(TRUE, c, node, node.Kids, pages, d)
    ELSE IF kids = <<>> THEN Out(pages, c, "", FALSE)
    ELSE Bind(ResolveRef(c, Head(kids), d + 1),
              LAMBDA kidObj :
                IF kidObj.over THEN Out(pages, c, "", TRUE)
                ELSE IF kidObj.obj.Type \in {"Dict", "Stream"}
                THEN Bind(Collecting(FALSE, kidObj.cache, kidObj.obj.Dict, <<>>,
                                     pages, d + 1),
                          LAMBDA r :
                            IF r.over THEN r
                            ELSE Collecting(TRUE, r.cache, node, Tail(kids), r.val, d))
                ELSE Collecting(TRUE, kidObj.cache, node, Tail(kids), pages, d))

\* collectPages(node, pages)
collectPages(c, node, pages, d) == Collecting(FALSE, c, node, <<>>, pages, d)

\* Pages() from the catalog on: the page Dicts in order.
PagesOf(cat, d) ==
    IF cat.over \/ cat.err # "" THEN Out(<<>>, cat.cache, cat.err, cat.over)
    ELSE IF cat.val.Pages = NoRef
    THEN Out(<<>>, cat.cache, "no /Pages in catalog", FALSE)
    ELSE Bind(ResolveRef(cat.cache, cat.val.Pages[1], d + 1),
              LAMBDA pagesObj :
                IF pagesObj.over THEN Out(<<>>, cat.cache, "", TRUE)
                ELSE collectPages(pagesObj.cache, pagesObj.obj.Dict, <<>>, d + 1))

\* Pages()
Pages(c, d) == PagesOf(Catalog(c, d + 1), d)

\* ContentStreams(page): the decoded data of the page's streams, each
\* followed by a space; nothing when /Contents is absent, is no stream or is
\* not decodable.
ContentStreams(c, page, d) ==
    IF page.Contents = NoRef THEN Out(<<>>, c, "", FALSE)
    ELSE Bind(ResolveRef(c, page.Contents[1], d + 1),
              LAMBDA contents :
                IF contents.over THEN Out(<<>>, c, "", TRUE)
                ELSE IF contents.obj.Type # "Stream"
                THEN Out(<<>>, contents.cache, "", FALSE)
                ELSE IF contents.obj.Stream = "corrupt"
                THEN Out(<<>>, contents.cache, "", FALSE)
                ELSE Out(<<contents.obj.Stream, " ">>, contents.cache, "", FALSE))

\* parseContentStream(content, fonts) on the decoded data.
parseContentStream(content) == IF content[1] = "text" THEN "T" ELSE ""

\* ExtractPageDict(page); the pages of the documents have no /Resources.
ExtractPageDict(c, page, d) ==
    Bind(ContentStreams(c, page, d + 1),
         LAMBDA content :
           IF content.over THEN Out("", c, "", TRUE)
           ELSE IF content.err # "" THEN Out("", content.cache, content.err, FALSE)
           ELSE IF Len(content.val) = 0 THEN Out("", content.cache, "", FALSE)
           ELSE Out(parseContentStream(content.val), content.cache, "", FALSE))

\* ExtractAll's loop that ends at the first page without text.
RECURSIVE ExtractAllLoopAbort(_, _, _, _, _)
ExtractAllLoopAbort(c, pages, i, results, d) ==
    IF i > Len(pages) THEN Out(results, c, "", FALSE)
    ELSE Bind(ExtractPageDict(c, pages[i], d + 1),
              LAMBDA e :
                IF e.over THEN Out(results, c, "", TRUE)
                ELSE IF e.err # "" \/ e.val = ""
                THEN Out(SubSeq(results, 1, i - 1), e.cache, "", FALSE)
                ELSE ExtractAllLoopAbort(e.cache, pages, i + 1,
                                         [results EXCEPT ![i] = e.val], d))

\* ExtractAll's loop from page i (counted from 1) on.
RECURSIVE ExtractAllLoop(_, _, _, _, _)
ExtractAllLoop(c, pages, i, results, d) ==
    IF i > Len(pages) THEN Out(results, c, "", FALSE)
    ELSE Bind(ExtractPageDict(c, pages[i], d + 1),
              LAMBDA e :
                IF e.over THEN Out(results, c, "", TRUE)
                ELSE IF e.err # ""
                THEN ExtractAllLoop(e.cache, pages, i + 1, results, d)
                ELSE ExtractAllLoop(e.cache, pages, i + 1,
                                    [results EXCEPT ![i] = e.val], d))

\* ExtractAll()
ExtractAll(c, d) ==
    Bind(Pages(c, d + 1),
         LAMBDA pages :
           IF pages.over \/ pages.err # "" THEN pages
           ELSE ExtractAllLoop(pages.cache, pages.val, 1,
                               [i \in 1 .. Len(pages.val) |-> ""], d))

\* ExtractPage(pageIndex), pageIndex counted from 0.
ExtractPage(c, pageIndex, d) ==
    Bind(Pages(c, d + 1),
         LAMBDA pages :
           IF pages.over THEN Out("", c, "", TRUE)
           ELSE IF pages.err # "" THEN Out("", pages.cache, pages.err, FALSE)
           ELSE IF pageIndex < 0 \/ pageIndex >= Len(pages.val)
           THEN Out("", pages.cache, "", FALSE)
           ELSE ExtractPageDict(pages.cache, pages.val[pageIndex + 1], d + 1))

\* The page indexes asked for: before, within and beyond the pages.
PageIndexes == (0 - 1) .. 1

\* The end of a call of the API: it returns, or the program dies.
Finish(over, c, ret) ==
    /\ dpc' = IF over THEN "overflow" ELSE "idle"
    /\ cache' = IF over THEN cache ELSE c
    /\ dret' = IF over THEN ret ELSE [ret EXCEPT !.done = TRUE]
    /\ UNCHANGED <<xref, trailer, docData>>
    /\ UNCHANGED notDocVars

\* A call of doc.ResolveRef for an object number of the xref table.
DocResolveRef ==
    /\ dpc = "idle"
    /\ \E n \in DocNums :
          LET r == ResolveRef(cache, n, 1)
          IN Finish(r.over, r.cache,
                    [Ret("ResolveRef", n) EXCEPT !.obj = r.obj,
                                                 !.hit = (n \in DOMAIN cache)])

\* A call of doc.Pages.
DocPages ==
    /\ dpc = "idle"
    /\ LET r == Pages(cache, 1)
       IN Finish(r.over, r.cache,
                 [Ret("Pages", 0) EXCEPT !.pages = r.val, !.err = r.err])

\* A call of Extractor.ExtractAll.
DocExtractAll ==
    /\ dpc = "idle"
    /\ LET r == ExtractAll(cache, 1)
       IN Finish(r.over, r.cache,
                 [Ret("ExtractAll", 0) EXCEPT !.texts = r.val, !.err = r.err])

\* A call of Extractor.ExtractPage.
DocExtractPage ==
    /\ dpc = "idle"
    /\ \E i \in PageIndexes :
          LET r == ExtractPage(cache, i, 1)
          IN Finish(r.over, r.cache,
                    [Ret("ExtractPage", i) EXCEPT !.text = r.val, !.err = r.err])

\* The values of a page's /Rotate: absent, an integer, an object that is no
\* integer, or a reference: to object 0, which no document has, or to an
\* object that some documents hold as an integer.
NoRotate == 1000
RealRotate == 1001
RotateInts == {0 - 90, 45, 90}
RotateRefs == {2000 + n : n \in {0, 1, 4}}
RotateValues == {NoRotate, RealRotate} \cup RotateInts \cup RotateRefs

\* GetPageInfo(page).Rotation for a page whose /Rotate is rot: doc.Resolve
\* follows a reference, and the value of an Int is taken as it is.
GetPageInfo(c, rot, d) ==
    IF rot \in RotateRefs
    THEN Bind(ResolveRef(c, rot - 2000, d), LAMBDA r :
           Out(IF ~r.err /\ r.obj.Type = "Int" THEN r.obj.Int ELSE 0,
               r.cache, "", r.over))
    ELSE Out(IF rot \in RotateInts THEN rot ELSE 0, c, "", FALSE)

\* A call of doc.GetPageInfo.
DocGetPageInfo ==
    /\ dpc = "idle"
    /\ \E rot \in RotateValues :
          LET r == GetPageInfo(cache, rot, 1)
          IN Finish(r.over, r.cache,
                    [Ret("GetPageInfo", rot) EXCEPT !.rotation = r.val])

DocNext == DocResolveRef \/ DocPages \/ DocExtractAll \/ DocExtractPage

\* The calls of GetPageInfo on a loaded document.
InfoNext == DocGetPageInfo

SpecInfo == DocInit /\ [][InfoNext]_vars

SpecDoc == DocInit /\ [][DocNext]_vars

(***************************************************************************)
(* Loaded document: properties                                             *)
(***************************************************************************)

\* C3: every lookup terminates on cyclic object graphs: no call of
\* ResolveRef or Pages exhausts the stack, whether a stream's /Length refers
\* to the stream itself, a compressed object's container is stored in itself,
\* or a page-tree node is reachable from its own /Kids.
C3_LookupsTerminate == ~(dpc = "overflow" /\ dret.op \in {"ResolveRef", "Pages"})

\* Whether ContentStreams gets no data for the page: /Contents is absent or
\* resolves to no stream or to a stream that is not decodable.
PageFails(page) ==
    \/ page.Contents = NoRef
    \/ ResolveRef(cache, page.Contents[1], 1).obj.Type # "Stream"
    \/ ResolveRef(cache, page.Contents[1], 1).obj.Stream = "corrupt"

C6_ExtractPageNeverFails ==
    (dret.op = "ExtractPage" /\ dret.done) =>
        /\ dret.err = ""
        /\ (dret.n < 0 \/ dret.n >= Len(Pages(cache, 1).val)) => dret.text = ""

\* C8: ResolveRef is idempotent: whatever calls ran before and whatever they
\* left in the cache, ResolveRef(n) returns the object it returns on a
\* document nothing has been resolved on yet.
C8_ResolveRefIdempotent ==
    (dret.op = "ResolveRef" /\ dret.done) =>
        dret.obj = ResolveRef(EmptyMap, dret.n, 1).obj

\* C8 witness: ResolveRef has answered for a stream from a cache that other
\* calls have filled.
C8_Witness ==
    /\ dret.op = "ResolveRef"
    /\ dret.done
    /\ dret.hit
    /\ dret.obj.Type = "Stream"
    /\ Cardinality(DOMAIN cache) >= 3

\* C15: GetPageInfo returns a rotation among 0, 90, 180 and 270 whatever
\* /Rotate holds, and 0 when /Rotate is absent.
C15_RotationNormalised ==
    (dret.op = "GetPageInfo" /\ dret.done) =>
        /\ dret.rotation \in {0, 90, 180, 270}
        /\ dret.n = NoRotate => dret.rotation = 0

(***************************************************************************)
(* Layout reconstruction: spansToText and cleanText                        *)
(***************************************************************************)

\* The most spans of a page and the most characters of a span.
MaxSpans == 2
MaxTextLen == 2

\* The characters of the span texts: a letter, the space, and the control
\* characters carriage return, form feed and tab.
TextChars == {"a", " ", "\r", "\f", "\t"}

\* The texts of the spans; the interpreter appends no span without text.
SpanTexts == UNION {[1 .. n -> TextChars] : n \in 1 .. MaxTextLen}

\* The positions and font sizes of the spans: two columns far apart, two rows
\* more than a line apart, the default size and the size 0.
SpanXs == {0, 50}
SpanYs == {0, 20}
FontSizes == {0, 12}

\* textSpan
TextSpans == [x : SpanXs, y : SpanYs, text : SpanTexts, fontSize : FontSizes]

\* The spans parseContentStream hands to spansToText.
LayInit ==
    /\ ExtIdle
    /\ LoadIdle
    /\ FiltIdle
    /\ ParseIdle
    /\ DocIdle
    /\ spans \in UNION {[1 .. n -> TextSpans] : n \in 0 .. MaxSpans}
    /\ pageText = <<>>
    /\ layPc = "spans"

\* unicode.IsControl on the characters of the texts.
IsControl(r) == r \in {"\r", "\n", "\f", "\t"}

\* cleanText's loop over the characters left, sb being the builder.
RECURSIVE CleanLoop(_, _, _)
CleanLoop(s, sb, prevSpace) ==
    IF s = <<>> THEN sb
    ELSE LET r == Head(s)
         IN IF r \in {"\r", "\n", "\f"}
            THEN CleanLoop(Tail(s), IF prevSpace THEN sb ELSE Append(sb, " "), TRUE)
            ELSE IF IsControl(r) THEN CleanLoop(Tail(s), sb, prevSpace)
            ELSE IF r \in {" ", "\t"}
            THEN CleanLoop(Tail(s), IF prevSpace THEN sb ELSE Append(sb, r), TRUE)
            ELSE CleanLoop(Tail(s), Append(sb, r), FALSE)

\* cleanText(s)
cleanText(s) == CleanLoop(s, <<>>, FALSE)

\* The sum of the font sizes: averageFontSize times the number of spans.
RECURSIVE FontSizeSum(_)
FontSizeSum(sps) == IF sps = <<>> THEN 0 ELSE Head(sps).fontSize + FontSizeSum(Tail(sps))

Abs(v) == IF v < 0 THEN 0 - v ELSE v

\* Whether |y1 - y2| < lineTol, lineTol being half the average font size of
\* the sps and at least 2.
WithinLineTol(y1, y2, sps) ==
    IF FontSizeSum(sps) < 4 * Len(sps) THEN Abs(y1 - y2) < 2
    ELSE 2 * Len(sps) * Abs(y1 - y2) < FontSizeSum(sps)

\* The first line, from i on, that sp is within lineTol of; 0 if none.
RECURSIVE FindLine(_, _, _, _)
FindLine(lines, sp, sps, i) ==
    IF i > Len(lines) THEN 0
    ELSE IF WithinLineTol(lines[i].y, sp.y, sps) THEN i
    ELSE FindLine(lines, sp, sps, i + 1)

\* spansToText's grouping loop over the spans left.
RECURSIVE GroupLines(_, _, _)
GroupLines(rest, lines, sps) ==
    IF rest = <<>> THEN lines
    ELSE LET sp == Head(rest)
             i == FindLine(lines, sp, sps, 1)
         IN IF i = 0
            THEN GroupLines(Tail(rest), Append(lines, [y |-> sp.y, spans |-> <<sp>>]), sps)
            ELSE GroupLines(Tail(rest),
                            [lines EXCEPT ![i].spans = Append(lines[i].spans, sp)], sps)

\* s with the elements at i and j exchanged.
Swap(s, i, j) == [s EXCEPT ![i] = s[j], ![j] = s[i]]

\* The two loops that sort the lines by descending y, from (i, j) on.
RECURSIVE SortLines(_, _, _)
SortLines(lines, i, j) ==
    IF i > Len(lines) - 1 THEN lines
    ELSE IF j > Len(lines) THEN SortLines(lines, i + 1, i + 2)
    ELSE SortLines(IF lines[j].y > lines[i].y THEN Swap(lines, i, j) ELSE lines, i, j + 1)

\* sortSpansByX, from (i, j) on.
RECURSIVE sortSpansByX(_, _, _)
sortSpansByX(sps, i, j) ==
    IF i > Len(sps) - 1 THEN sps
    ELSE IF j > Len(sps) THEN sortSpansByX(sps, i + 1, i + 2)
    ELSE sortSpansByX(IF sps[j].x < sps[i].x THEN Swap(sps, i, j) ELSE sps, i, j + 1)

\* Whether spansToText writes a space between prev and sp: the gap after
\* the estimated width of prev is more than 0.3 of the average font size,
\* taken as 12 when below 1. Twenty times both sides.
GapSpace(prev, sp) ==
    LET gap2 == 2 * sp.x - (2 * prev.x + Len(prev.text) * prev.fontSize)
        fs2 == IF sp.fontSize + prev.fontSize < 2 THEN 24
               ELSE sp.fontSize + prev.fontSize
    IN 10 * gap2 > 3 * fs2

\* The text of a line whose spans are sorted, from span si on.
RECURSIVE EmitSpans(_, _, _)
EmitSpans(sps, si, sb) ==
    IF si > Len(sps) THEN sb
    ELSE LET sep == IF si > 1 /\ GapSpace(sps[si - 1], sps[si]) THEN <<" ">> ELSE <<>>
         IN EmitSpans(sps, si + 1, sb \o sep \o cleanText(sps[si].text))

\* The text of the sorted lines, from line li on.
RECURSIVE EmitLines(_, _, _)
EmitLines(lines, li, sb) ==
    IF li > Len(lines) THEN sb
    ELSE EmitLines(lines, li + 1,
                   EmitSpans(sortSpansByX(lines[li].spans, 1, 2), 1,
                             IF li > 1 THEN Append(sb, "\n") ELSE sb))

\* The white space strings.TrimSpace removes.
IsSpace(r) == r \in {" ", "\t", "\n", "\r", "\f"}

\* strings.TrimSpace
RECURSIVE TrimSpace(_)
TrimSpace(s) ==
    IF s = <<>> THEN s
    ELSE IF IsSpace(Head(s)) THEN TrimSpace(Tail(s))
    ELSE IF IsSpace(s[Len(s)]) THEN TrimSpace(SubSeq(s, 1, Len(s) - 1))
    ELSE s

\* spansToText(spans)
spansToText(sps) ==
    IF Len(sps) = 0 THEN <<>>
    ELSE TrimSpace(EmitLines(SortLines(GroupLines(sps, <<>>, sps), 1, 2), 1, <<>>))

\* The end of parseContentStream: the page text of the spans.
SpansToText ==
    /\ layPc = "spans"
    /\ pageText' = spansToText(spans)
    /\ layPc' = "done"
    /\ UNCHANGED spans
    /\ UNCHANGED notLayVars

LayNext == SpansToText

SpecLay == LayInit /\ [][LayNext]_vars

\* C7: the page text holds no carriage return, no form feed and no two
\* white-space characters in a row, whatever the texts and positions of the
\* spans are.
C7_NoWhitespaceRun ==
    layPc = "done" =>
        /\ \A i \in 1 .. Len(pageText) : pageText[i] \notin {"\r", "\f"}
        /\ \A i \in 1 .. Len(pageText) - 1 :
              ~(IsSpace(pageText[i]) /\ IsSpace(pageText[i + 1]))

(***************************************************************************)
(* Filter pipeline: DecompressStream and applyFilter                       *)
(***************************************************************************)

\* The cap on decoded data: 256 * 1024 * 1024.
maxDecompressedSize == 268435456

\* The most filters of a /Filter array.
MaxChain == 2

\* The filter names: the five decoders, an image format and Crypt, which
\* pass the data through, and a name applyFilter does not know.
Decoders ==
    {"FlateDecode", "ASCII85Decode", "ASCIIHexDecode", "LZWDecode", "RunLengthDecode"}
PassThrough == {"DCTDecode", "Crypt"}
FilterNames == Decoders \cup PassThrough \cup {"Unknown"}

\* The /Filter key: absent, a name, an array of names, or another object.
FilterObjs ==
    {[kind |-> "absent", filters |-> <<>>], [kind |-> "other", filters |-> <<>>]}
    \cup {[kind |-> "name", filters |-> <<f>>] : f \in FilterNames}
    \cup {[kind |-> "array", filters |-> fs] :
             fs \in UNION {[1 .. n -> FilterNames] : n \in 0 .. MaxChain}}

\* The lengths of data: short, at the cap, one and two above it, and more
\* than twice the cap.
Sizes ==
    {1, maxDecompressedSize, maxDecompressedSize + 1, maxDecompressedSize + 2,
     2 * maxDecompressedSize + 2}

\* Whether n bytes of input can be the encoding of out bytes for filter f:
\* two hex digits a byte, a 'z' four bytes, two run-length bytes 128, and
\* about 1032 bytes a byte for deflate and LZW.
MayDecodeTo(f, n, out) ==
    CASE f = "ASCIIHexDecode" -> 2 * (out \div 2) <= n /\ out <= (n + 1) \div 2
      [] f = "ASCII85Decode" -> out \div 4 <= n
      [] f = "RunLengthDecode" -> out \div 64 <= n
      [] f \in {"FlateDecode", "LZWDecode"} -> out \div 1032 <= n
      [] OTHER -> out = n

\* A stream's dictionary and raw data; the data are an encoding for the
\* filters of the dictionary, in their order. DecodeParms are absent.
FiltInit ==
    /\ ExtIdle
    /\ LoadIdle
    /\ ParseIdle
    /\ DocIdle
    /\ LayIdle
    /\ fdict \in FilterObjs
    /\ flens \in [1 .. Len(fdict.filters) + 1 -> Sizes]
    /\ \A i \in 1 .. Len(fdict.filters) : MayDecodeTo(fdict.filters[i], flens[i], flens[i + 1])
    /\ fcur = [len |-> flens[1], cut |-> FALSE]
    /\ fidx = 0
    /\ fpc = "start"

\* What a filter returns: an error, or data.
FilterErr == [err |-> TRUE, len |-> 0, cut |-> FALSE]
FilterOk(len, cut) == [err |-> FALSE, len |-> len, cut |-> cut]

\* The lengths a decoder can get out of data that should decode to full
\* bytes: all of them, or fewer when an earlier decoder has cut the data.
DecodedLens(cur, full) == IF cur.cut THEN {n \in Sizes : n <= full} ELSE {full}

\* io.ReadAll(io.LimitReader(r, maxDecompressedSize+1)) on a reader that
\* yields n bytes.
LimitRead(n) == IF n > maxDecompressedSize + 1 THEN maxDecompressedSize + 1 ELSE n

\* applyFilter(filter, parms, data): what the filter can return for data
\* cur that, whole, decode to full bytes.
applyFilter(filter, cur, full) ==
    CASE filter = "FlateDecode" ->
           IF cur.cut THEN {FilterErr}
           ELSE IF LimitRead(full) > maxDecompressedSize THEN {FilterErr}
           ELSE {FilterOk(LimitRead(full), FALSE)}
      [] filter = "ASCII85Decode" ->
           {FilterOk(LimitRead(n), cur.cut \/ n > LimitRead(n)) : n \in DecodedLens(cur, full)}
           \cup (IF cur.cut THEN {FilterErr} ELSE {})
      [] filter = "LZWDecode" ->
           {FilterOk(LimitRead(n), cur.cut \/ n > LimitRead(n)) :
               n \in {m \in DecodedLens(cur, full) : ~cur.cut \/ m > maxDecompressedSize}}
           \cup (IF cur.cut THEN {FilterErr} ELSE {})
      [] filter = "ASCIIHexDecode" ->
           {FilterOk(n, cur.cut) : n \in DecodedLens(cur, full)}
      [] filter = "RunLengthDecode" ->
           {IF n > maxDecompressedSize THEN FilterErr ELSE FilterOk(n, cur.cut) :
               n \in DecodedLens(cur, full)}
      [] filter \in PassThrough -> {FilterOk(cur.len, cur.cut)}
      [] OTHER -> {FilterErr}

\* DecompressStream up to its loop: without /Filter, and with a /Filter that
\* is neither a name nor an array, it returns the data as they are.
DecompressStart ==
    /\ fpc = "start"
    /\ fpc' = IF fdict.kind \in {"absent", "other"} THEN "done" ELSE "loop"
    /\ UNCHANGED <<fdict, flens, fcur, fidx>>
    /\ UNCHANGED notFiltVars

\* One turn of DecompressStream's loop: the next filter decodes current, or
\* fails and DecompressStream with it.
ApplyFilter ==
    /\ fpc = "loop"
    /\ fidx < Len(fdict.filters)
    /\ \E r \in applyFilter(fdict.filters[fidx + 1], fcur, flens[fidx + 2]) :
          IF r.err
          THEN fpc' = "failed" /\ UNCHANGED <<fcur, fidx>>
          ELSE /\ fcur' = [len |-> r.len, cut |-> r.cut]
               /\ fidx' = fidx + 1
               /\ UNCHANGED fpc
    /\ UNCHANGED <<fdict, flens>>
    /\ UNCHANGED notFiltVars

\* The end of the loop: DecompressStream returns current.
DecompressReturn ==
    /\ fpc = "loop"
    /\ fidx = Len(fdict.filters)
    /\ fpc' = "done"
    /\ UNCHANGED <<fdict, flens, fcur, fidx>>
    /\ UNCHANGED notFiltVars

FiltNext == DecompressStart \/ ApplyFilter \/ DecompressReturn

SpecFilt == FiltInit /\ [][FiltNext]_vars

\* The dictionary names a decoding filter, or a chain of them.
DecodingChain ==
    /\ fdict.kind \in {"name", "array"}
    /\ Len(fdict.filters) > 0
    /\ \A i \in 1 .. Len(fdict.filters) : fdict.filters[i] \in Decoders

\* C9: for each decoding filter and for any chain of them, DecompressStream
\* fails or returns at most 256 MiB: data beyond the cap are reported as an
\* error, never returned.
C9_OutputCapped ==
    (DecodingChain /\ fpc = "done") => fcur.len <= maxDecompressedSize

(***************************************************************************)
(* Font encoding: ToUnicode bfchar entries and Decode                      *)
(***************************************************************************)

\* The most UTF-16 code units of a destination.
MaxUnits == 2

HexChars ==
    <<"0", "1", "2", "3", "4", "5", "6", "7", "8", "9", "A", "B", "C", "D", "E", "F">>
LowerHexChars == <<"a", "b", "c", "d", "e", "f">>

\* hexValRune(r): the value of a hex digit, 0 for any other rune.
hexValRune(r) ==
    IF \E i \in 1 .. 16 : HexChars[i] = r
    THEN (CHOOSE i \in 1 .. 16 : HexChars[i] = r) - 1
    ELSE IF \E i \in 1 .. 6 : LowerHexChars[i] = r
    THEN (CHOOSE i \in 1 .. 6 : LowerHexChars[i] = r) + 9
    ELSE 0

\* The four hex digits of a 16-bit unit, and the two of a byte.
Hex4(u) ==
    <<HexChars[(u \div 4096) + 1], HexChars[((u \div 256) % 16) + 1],
      HexChars[((u \div 16) % 16) + 1], HexChars[(u % 16) + 1]>>
Hex2(b) == <<HexChars[(b \div 16) + 1], HexChars[(b % 16) + 1]>>

\* strings.TrimSpace.
RECURSIVE TrimLeft(_)
TrimLeft(s) ==
    IF s # <<>> /\ Head(s) \in {" ", "\t", "\r", "\n"} THEN TrimLeft(Tail(s)) ELSE s
RECURSIVE TrimRight(_)
TrimRight(s) ==
    IF s # <<>> /\ s[Len(s)] \in {" ", "\t", "\r", "\n"}
    THEN TrimRight(SubSeq(s, 1, Len(s) - 1))
    ELSE s

\* The text of a hex token: TrimPrefix "<", TrimSuffix ">", TrimSpace.
TokenText(s) ==
    LET s1 == IF s # <<>> /\ Head(s) = "<" THEN Tail(s) ELSE s
        s2 == IF s1 # <<>> /\ s1[Len(s1)] = ">" THEN SubSeq(s1, 1, Len(s1) - 1) ELSE s1
    IN TrimRight(TrimLeft(s2))

\* v = v<<4 | hexValRune(c) over the characters of s, in an unsigned integer
\* whose shift keeps the values below keep.
RECURSIVE HexAcc(_, _, _)
HexAcc(s, v, keep) ==
    IF s = <<>> THEN v
    ELSE HexAcc(Tail(s), (v % keep) * 16 + hexValRune(Head(s)), keep)

\* parseHexToken(s): a <HHHH> token as a uint32 code.
parseHexToken(s) == HexAcc(TokenText(s), 0, 268435456)

\* utf8.ValidRune, and the rune strings.Builder.WriteRune writes: U+FFFD for
\* a rune that is not valid.
ValidRune(r) == (0 <= r /\ r < 55296) \/ (57343 < r /\ r <= 1114111)
WriteRune(r) == IF ValidRune(r) THEN r ELSE 65533

\* The length of a rune's UTF-8 encoding.
RuneLen(r) == IF r < 128 THEN 1 ELSE IF r < 2048 THEN 2 ELSE IF r < 65536 THEN 3 ELSE 4

\* utf16ToString(units), from index i: the runes of the string.
RECURSIVE utf16ToString(_, _)
utf16ToString(units, i) ==
    IF i > Len(units) THEN <<>>
    ELSE LET u == units[i]
         IN IF /\ u >= 55296 /\ u <= 56319 /\ i + 1 <= Len(units)
               /\ units[i + 1] >= 56320 /\ units[i + 1] <= 57343
            THEN <<WriteRune((u - 55296) * 1024 + (units[i + 1] - 56320) + 65536)>>
                 \o utf16ToString(units, i + 2)
            ELSE <<WriteRune(u)>> \o utf16ToString(units, i + 1)

\* The loop of parseHexUTF16 over groups of four characters, from offset i.
RECURSIVE Utf16Units(_, _)
Utf16Units(s, i) ==
    IF i + 3 >= Len(s) THEN <<>>
    ELSE <<hexValRune(s[i + 1]) * 4096 + hexValRune(s[i + 2]) * 256
           + hexValRune(s[i + 3]) * 16 + hexValRune(s[i + 4])>>
         \o Utf16Units(s, i + 4)

\* parseHexUTF16(s): a <HHHH> token as UTF-16BE; the runes of the result.
parseHexUTF16(s) ==
    LET t == TokenText(s)
    IN IF Len(t) = 0 THEN <<>>
       ELSE IF Len(t) % 4 # 0 /\ Len(t) % 2 = 0 THEN <<WriteRune(HexAcc(t, 0, 16))>>
       ELSE utf16ToString(Utf16Units(t, 0), 1)

\* strings.Index(line[i:], c): the offset of the first c at or after i, or -1.
IndexOfChar(line, i, c) ==
    LET hits == {j \in i .. Len(line) - 1 : line[j + 1] = c}
    IN IF hits = {} THEN 0 - 1 ELSE (CHOOSE j \in hits : \A k \in hits : j <= k) - i

\* The end of a regular token that starts at i.
RECURSIVE TokenEnd(_, _)
TokenEnd(line, j) ==
    IF j < Len(line) /\ line[j + 1] \notin {" ", "\t"} THEN TokenEnd(line, j + 1) ELSE j

\* parseCMapTokens(line), from offset i.
RECURSIVE parseCMapTokens(_, _)
parseCMapTokens(line, i) ==
    IF i >= Len(line) THEN <<>>
    ELSE IF line[i + 1] \in {" ", "\t", "\r"} THEN parseCMapTokens(line, i + 1)
    ELSE IF line[i + 1] = "<"
    THEN LET j == IndexOfChar(line, i + 1, ">")
         IN IF j < 0 THEN <<>>
            ELSE <<SubSeq(line, i + 1, i + j + 2)>> \o parseCMapTokens(line, i + j + 2)
    ELSE IF line[i + 1] = "["
    THEN LET j == IndexOfChar(line, i, "]")
         IN IF j < 0 THEN <<SubSeq(line, i + 1, Len(line))>>
            ELSE <<SubSeq(line, i + 1, i + j + 1)>> \o parseCMapTokens(line, i + j + 1)
    ELSE <<SubSeq(line, i + 1, TokenEnd(line, i))>>
         \o parseCMapTokens(line, TokenEnd(line, i))

\* parseBFCharEntry(line) on the encoding e.
parseBFCharEntry(e, line) ==
    LET tokens == parseCMapTokens(line, 0)
    IN IF Len(tokens) < 2 THEN e
       ELSE LET src == parseHexToken(tokens[1])
                dst == parseHexUTF16(tokens[2])
            IN IF e.isSimple /\ src < 256
               THEN IF Len(dst) > 0
                    THEN [e EXCEPT !.codeToUnicode = MapSet(e.codeToUnicode, src, dst[1])]
                    ELSE e
               ELSE [e EXCEPT !.cmapChars = MapSet(e.cmapChars, src, dst)]

\* codeToUnicode[b]: NewFontEncoding's identity baseline where no entry has
\* set the code.
CodeToUnicode(e, b) == IF b \in DOMAIN e.codeToUnicode THEN e.codeToUnicode[b] ELSE b

\* Decode's loop for a simple font.
RECURSIVE DecodeSimple(_, _)
DecodeSimple(e, data) ==
    IF data = <<>> THEN <<>>
    ELSE LET r0 == CodeToUnicode(e, Head(data))
             r == IF r0 = 0 THEN Head(data) ELSE r0
         IN (IF r > 0 /\ ValidRune(r) THEN <<r>> ELSE <<>>)
            \o DecodeSimple(e, Tail(data))

\* Decode's loop for a CID font, from index i: two-byte codes first.
RECURSIVE DecodeCID(_, _, _)
DecodeCID(e, data, i) ==
    IF i >= Len(data) THEN <<>>
    ELSE IF i + 1 < Len(data) /\ (data[i + 1] * 256 + data[i + 2]) \in DOMAIN e.cmapChars
    THEN e.cmapChars[data[i + 1] * 256 + data[i + 2]] \o DecodeCID(e, data, i + 2)
    ELSE IF data[i + 1] \in DOMAIN e.cmapChars
    THEN e.cmapChars[data[i + 1]] \o DecodeCID(e, data, i + 1)
    ELSE LET r == CodeToUnicode(e, data[i + 1])
         IN (IF r > 0 /\ ValidRune(r) THEN <<r>> ELSE <<>>) \o DecodeCID(e, data, i + 1)

\* Decode(data): the runes of the string it returns.
Decode(e, data) == IF e.isSimple THEN DecodeSimple(e, data) ELSE DecodeCID(e, data, 0)

\* The UTF-16 units of the destinations: the surrogates of U+1F600, the ends
\* of both surrogate ranges, their outer neighbours and a letter.
Units == {55357, 56832, 55296, 56319, 56320, 57343, 65, 55295, 57344}

\* The destinations: one to MaxUnits units, written one after the other or
\* with a space between two units.
RECURSIVE JoinUnits(_, _)
JoinUnits(us, sep) ==
    IF Len(us) = 0 THEN <<>>
    ELSE IF Len(us) = 1 THEN Hex4(us[1])
    ELSE Hex4(us[1]) \o sep \o JoinUnits(Tail(us), sep)

\* The source codes: one byte, or two.
SourceCodes == {<<65>>, <<1, 65>>}

RECURSIVE HexOfBytes(_)
HexOfBytes(bs) == IF bs = <<>> THEN <<>> ELSE Hex2(Head(bs)) \o HexOfBytes(Tail(bs))

\* The bfchar lines: <src> <dst>.
BFCharLines ==
    {[code |-> c, units |-> us, sep |-> sep,
      text |-> <<"<">> \o HexOfBytes(c) \o <<">", " ", "<">> \o JoinUnits(us, sep) \o <<">">>] :
        c \in SourceCodes,
        us \in UNION {[1 .. n -> Units] : n \in 1 .. MaxUnits},
        sep \in {<<>>, <<" ">>}}

\* A FontEncoding as NewFontEncoding leaves it before the ToUnicode CMap: a
\* simple font, or a Type0 font.
CmapInit ==
    /\ LoadIdle
    /\ ParseIdle
    /\ DocIdle
    /\ LayIdle
    /\ FiltIdle
    /\ RsIdle
    /\ ConvIdle
    /\ VerIdle
    /\ OpIdle
    /\ DecIdle
    /\ cmLine \in BFCharLines
    /\ enc \in [isSimple : BOOLEAN, codeToUnicode : {EmptyMap}, cmapChars : {EmptyMap}]
    /\ cmOut = <<>>
    /\ cmPc = "line"
    /\ cmLoop = <<>>

\* parseToUnicodeCMap on a line inside beginbfchar ... endbfchar.
ParseBFCharEntry ==
    /\ cmPc = "line"
    /\ enc' = parseBFCharEntry(enc, cmLine.text)
    /\ cmPc' = "parsed"
    /\ UNCHANGED <<cmLine, cmOut, cmLoop>>
    /\ UNCHANGED notCmapVars

\* Decode on the bytes of the line's source code.
DecodeCode ==
    /\ cmPc = "parsed"
    /\ cmOut' = Decode(enc, cmLine.code)
    /\ cmPc' = "decoded"
    /\ UNCHANGED <<cmLine, enc, cmLoop>>
    /\ UNCHANGED notCmapVars

CmapNext == ParseBFCharEntry \/ DecodeCode

SpecCmap == CmapInit /\ [][CmapNext]_vars

\* The destination is a high surrogate followed by a low surrogate, and the
\* source code is one the font can hold: one byte for a simple font.
SurrogatePair ==
    /\ Len(cmLine.units) = 2
    /\ cmLine.units[1] >= 55296 /\ cmLine.units[1] <= 56319
    /\ cmLine.units[2] >= 56320 /\ cmLine.units[2] <= 57343
    /\ enc.isSimple => Len(cmLine.code) = 1

\* C13: a bfchar destination <D83D DE00> maps the source code to U+1F600,
\* and every destination that holds a high surrogate followed by a low one is
\* joined into 0x10000 + ((hi-0xD800)<<10) + (lo-0xDC00), one code point of
\* four UTF-8 bytes, which Decode emits for the source code.
C13_SurrogatesJoined ==
    (cmPc = "decoded" /\ SurrogatePair) =>
        /\ cmOut = <<65536 + (cmLine.units[1] - 55296) * 1024 + (cmLine.units[2] - 56320)>>
        /\ RuneLen(cmOut[1]) = 4

(***************************************************************************)
(* Document.Version                                                        *)
(***************************************************************************)

\* The capacity of a slice that is longer than its data.
SpareCap == 32

\* The decimal digits of a natural number.
RECURSIVE Decimal(_)
Decimal(n) == IF n < 10 THEN <<DigitOf(n)>> ELSE Decimal(n \div 10) \o <<DigitOf(n % 10)>>

KwPDF == <<"%", "P", "D", "F", "-">>
KwXref == <<"x", "r", "e", "f">>
KwStartxref == <<"s", "t", "a", "r", "t", "x", "r", "e", "f">>

\* The files Load accepts: the header, a version and its line end, an xref
\* table and startxref with the table's offset. The version and the line end
\* may be missing, and so may the table's entries and trailer.
Versions == {<<>>, <<"1">>, <<"1", ".", "7">>, <<"1", ".", "7", " ">>}
LineEnds == {<<>>, <<"\n">>, <<"\r", "\n">>, <<"\r">>}
Tables ==
    {KwXref, KwXref \o <<"\n">>,
     KwXref \o <<"\n", "0", " ", "0", "\n", "t", "r", "a", "i", "l", "e", "r", "\n",
                 "<", "<", ">", ">", "\n">>}
LoadedFiles ==
    {[ver |-> v, eol |-> e,
      data |-> KwPDF \o v \o e \o t \o KwStartxref \o Decimal(Len(KwPDF \o v \o e))] :
        v \in Versions, e \in LineEnds, t \in Tables}

\* A loaded Document: doc.data is one of the files, in an array of its own
\* length or a longer one whose spare bytes are zero or line feeds.
VerInit ==
    /\ LoadIdle
    /\ ParseIdle
    /\ DocIdle
    /\ LayIdle
    /\ FiltIdle
    /\ RsIdle
    /\ ConvIdle
    /\ CmapIdle
    /\ OpIdle
    /\ DecIdle
    /\ \E f \in LoadedFiles, c \in {0, SpareCap}, b \in {NUL, "\n"} :
          verDoc = [ver |-> f.ver, eol |-> f.eol, data |-> f.data,
                    cap |-> IF c > Len(f.data) THEN c ELSE Len(f.data), spare |-> b]
    /\ verRet = <<>>
    /\ verPc = "loaded"

\* The byte at offset i of the array behind doc.data.
ArrayAt(d, i) == IF i < Len(d.data) THEN d.data[i + 1] ELSE d.spare

\* bytes.IndexByte(doc.data[5:20], '\n').
IndexLF(d) ==
    LET hits == {i \in 5 .. 19 : ArrayAt(d, i) = "\n"}
    IN IF hits = {} THEN 0 - 1 ELSE (CHOOSE i \in hits : \A j \in hits : i <= j) - 5

\* strings.TrimRight(v, "\r\n ").
RECURSIVE TrimRightEOL(_)
TrimRightEOL(v) ==
    IF v # <<>> /\ v[Len(v)] \in {"\r", "\n", " "}
    THEN TrimRightEOL(SubSeq(v, 1, Len(v) - 1))
    ELSE v

\* Version(): "?" for fewer than 8 bytes; a panic when the array is shorter
\* than the 20 bytes of doc.data[5:20]; and else doc.data[5:5+end], trimmed.
Version(d) ==
    IF Len(d.data) < 8 THEN [panic |-> FALSE, v |-> <<"?">>]
    ELSE IF d.cap < 20 THEN [panic |-> TRUE, v |-> <<>>]
    ELSE LET end == IF IndexLF(d) < 0 THEN 5 ELSE IndexLF(d)
         IN [panic |-> FALSE,
             v |-> TrimRightEOL([i \in 1 .. end |-> ArrayAt(d, 4 + i)])]

\* A call of Version on the loaded Document.
CallVersion ==
    /\ verPc = "loaded"
    /\ verRet' = Version(verDoc).v
    /\ verPc' = IF Version(verDoc).panic THEN "panic" ELSE "returned"
    /\ UNCHANGED verDoc
    /\ UNCHANGED notVerVars

VerNext == CallVersion

SpecVer == VerInit /\ [][VerNext]_vars

\* C14: Version does not panic, files shorter than 20 bytes included, and
\* when the header line ends with LF, CR LF or CR alone it returns the bytes
\* between %PDF- and that line end, trimmed.
C14_VersionOfHeaderLine ==
    /\ verPc # "panic"
    /\ (verPc = "returned" /\ verDoc.eol # <<>>) => verRet = TrimRightEOL(verDoc.ver)

(***************************************************************************)
(* Content-stream interpreter: processOperator                             *)
(***************************************************************************)

\* The most elements of a TJ array, and the most operators of a stream.
MaxTJElems == 2
MaxOps == 3

\* An operand. Numbers are held in tenths: 45 is the integer 45 as ObjInt
\* with Num 450, and -100.5 is an ObjFloat with Num -1005.
Operand(type) == [Type |-> type, Str |-> <<>>, Num |-> 0, Array |-> <<>>]
StringOperand(bytes) == [Operand("String") EXCEPT !.Str = bytes]
IntOperand(v) == [Operand("Int") EXCEPT !.Num = 10 * v]
FloatOperand(tenths) == [Operand("Float") EXCEPT !.Num = tenths]
ArrayOperand(elems) == [Operand("Array") EXCEPT !.Array = elems]

\* The elements of the TJ arrays: strings (a letter, a control byte alone),
\* kerning numbers on both sides of -100, and a name.
TJElems ==
    {StringOperand(<<97>>), StringOperand(<<10>>),
     IntOperand(0 - 101), IntOperand(0 - 100), FloatOperand(0 - 1005),
     Operand("Name")}
TJArrays == UNION {[1 .. n -> TJElems] : n \in 0 .. MaxTJElems}

\* The operand stacks of a TJ: the array, a string instead of the array, and
\* the array after a number that no operator has consumed.
TJStacks ==
    {<<ArrayOperand(a)>> : a \in TJArrays}
    \cup {<<StringOperand(<<97>>)>>, <<>>}
    \cup {<<IntOperand(5), ArrayOperand(<<StringOperand(<<97>>)>>)>>}

\* The operand stacks of a Td: two numbers.
TdStacks == {<<IntOperand(x), IntOperand(y)>> : x \in {0, 50}, y \in {0, 0 - 20}}

\* floatArg(obj), in tenths.
floatArg(obj) == IF obj.Type \in {"Int", "Float"} THEN obj.Num ELSE 0

\* decodeTextObj's fallback for a font that is not in fonts: Latin-1 without
\* the control bytes.
RECURSIVE Latin1(_)
Latin1(bytes) ==
    IF bytes = <<>> THEN <<>>
    ELSE (IF Head(bytes) >= 32 THEN <<Head(bytes)>> ELSE <<>>) \o Latin1(Tail(bytes))

\* The FontEncoding of a simple font without ToUnicode CMap.
PlainEncoding == [isSimple |-> TRUE, codeToUnicode |-> EmptyMap, cmapChars |-> EmptyMap]

\* decodeTextObj(obj, fontName, fonts): the runes of the string.
decodeTextObj(obj, hasFont) ==
    IF obj.Type # "String" THEN <<>>
    ELSE IF hasFont THEN Decode(PlainEncoding, obj.Str)
    ELSE Latin1(obj.Str)

\* The loop of TJ over the array with the test kern <= -100.
RECURSIVE ShowArrayAtLimit(_, _)
ShowArrayAtLimit(elems, hasFont) ==
    IF elems = <<>> THEN <<>>
    ELSE LET elem == Head(elems)
             piece == IF elem.Type = "String" THEN decodeTextObj(elem, hasFont)
                      ELSE IF elem.Type \in {"Int", "Float"} /\ floatArg(elem) <= 0 - 1000
                      THEN <<32>>
                      ELSE <<>>
         IN piece \o ShowArrayAtLimit(Tail(elems), hasFont)

\* The loop of TJ over the array: what the strings.Builder holds.
RECURSIVE ShowArray(_, _)
ShowArray(elems, hasFont) ==
    IF elems = <<>> THEN <<>>
    ELSE LET elem == Head(elems)
             piece == IF elem.Type = "String" THEN decodeTextObj(elem, hasFont)
                      ELSE IF elem.Type \in {"Int", "Float"} /\ floatArg(elem) < 0 - 1000
                      THEN <<32>>
                      ELSE <<>>
         IN piece \o ShowArray(Tail(elems), hasFont)

\* newTextState() and inText = false, for a page with or without the font.
OpInit ==
    /\ LoadIdle
    /\ ParseIdle
    /\ DocIdle
    /\ FiltIdle
    /\ RsIdle
    /\ ConvIdle
    /\ CmapIdle
    /\ VerIdle
    /\ DecIdle
    /\ spans = <<>>
    /\ pageText = <<>>
    /\ layPc = "idle"
    /\ ts \in [inText : {FALSE}, tx : {0}, ty : {0}, lx : {0}, ly : {0},
               fontSize : {12}, hasFont : BOOLEAN]
    /\ opLast = [op |-> "", args |-> <<>>]
    /\ opCount = 0

\* processOperator's first lines: the operator takes the stack.
Took(op, args) ==
    /\ opCount < MaxOps
    /\ opLast' = [op |-> op, args |-> args]
    /\ opCount' = opCount + 1
    /\ UNCHANGED notOpVars

\* case "BT"
OpBT ==
    /\ Took("BT", <<>>)
    /\ ts' = [ts EXCEPT !.inText = TRUE, !.tx = 0, !.ty = 0, !.lx = 0, !.ly = 0]
    /\ UNCHANGED spans

\* case "ET"
OpET ==
    /\ Took("ET", <<>>)
    /\ ts' = [ts EXCEPT !.inText = FALSE]
    /\ UNCHANGED spans

\* case "Td"
OpTd ==
    /\ \E args \in TdStacks :
          /\ Took("Td", args)
          /\ ts' = [ts EXCEPT !.lx = ts.lx + floatArg(args[1]) \div 10,
                              !.ly = ts.ly + floatArg(args[2]) \div 10,
                              !.tx = ts.lx + floatArg(args[1]) \div 10,
                              !.ty = ts.ly + floatArg(args[2]) \div 10]
    /\ UNCHANGED spans

\* case "TJ"
OpTJ ==
    /\ \E args \in TJStacks :
          /\ Took("TJ", args)
          /\ IF ts.inText /\ Len(args) >= 1 /\ args[1].Type = "Array"
             THEN LET text == ShowArray(args[1].Array, ts.hasFont)
                  IN spans' = IF text # <<>>
                              THEN Append(spans, [x |-> ts.tx, y |-> ts.ty, text |-> text,
                                                  fontSize |-> ts.fontSize])
                              ELSE spans
             ELSE UNCHANGED spans
    /\ UNCHANGED ts

OpNext == OpBT \/ OpET \/ OpTd \/ OpTJ

SpecOp == OpInit /\ [][OpNext]_vars

\* The text the array of a TJ shows: the decoded strings in the order of
\* the array, and a space for each number below -100.
RECURSIVE Shown(_, _)
Shown(elems, hasFont) ==
    IF elems = <<>> THEN <<>>
    ELSE Shown(SubSeq(elems, 1, Len(elems) - 1), hasFont)
         \o (LET e == elems[Len(elems)]
             IN CASE e.Type = "String" -> decodeTextObj(e, hasFont)
                  [] e.Type = "Int" /\ e.Num \div 10 < 0 - 100 -> <<32>>
                  [] e.Type = "Float" /\ e.Num < 0 - 1000 -> <<32>>
                  [] OTHER -> <<>>)

\* A TJ inside a text object has just been processed with its array.
TJShown ==
    /\ opLast'.op = "TJ"
    /\ opCount' = opCount + 1
    /\ ts.inText
    /\ Len(opLast'.args) = 1
    /\ opLast'.args[1].Type = "Array"

\* C16: TJ inside a text object emits exactly one span, at the current
\* (tx, ty), whose text is the decoded strings of the array in order with one
\* space for each number below -100 and nothing for a number >= -100; it
\* emits no span when that text is empty.
C16_TJOneSpan ==
    [][TJShown =>
        LET text == Shown(opLast'.args[1].Array, ts.hasFont)
        IN IF text = <<>> THEN spans' = spans
           ELSE spans' = Append(spans, [x |-> ts.tx, y |-> ts.ty, text |-> text,
                                        fontSize |-> ts.fontSize])]_vars

\* C16 witness: a TJ inside a text object whose array holds a string and
\* the number -101 has emitted the span "a " away from the origin.
C16_Witness ==
    /\ opLast.op = "TJ"
    /\ ts.inText
    /\ opLast.args = <<ArrayOperand(<<StringOperand(<<97>>), IntOperand(0 - 101)>>)>>
    /\ spans # <<>>
    /\ spans[Len(spans)].text = <<97, 32>>
    /\ spans[Len(spans)].x = 50

(***************************************************************************)
(* Decoders: runLengthDecode                                               *)
(***************************************************************************)

\* The longest run-length input.
MaxRLLen == 4

\* The bytes of the run-length inputs: literal runs of 1, 2 and 128 bytes,
\* the end-of-data marker, repeat runs of 128, 3 and 2 bytes, and a letter.
RLBytes == {0, 1, 127, 128, 129, 254, 255, 65}
RLInputs == UNION {[1 .. n -> RLBytes] : n \in 0 .. MaxRLLen}

\* count copies of the byte b.
RepeatByte(b, count) == [k \in 1 .. count |-> b]

\* The result of the loop: the buffer, and how far into data it has read.
RLResult(buf, read) == [buf |-> buf, read |-> read]

\* runLengthDecode's loop with repeat runs of 256-length bytes.
RECURSIVE RunLoopShortRepeat(_, _, _, _)
RunLoopShortRepeat(data, i, buf, read) ==
    IF i >= Len(data) THEN RLResult(buf, read)
    ELSE LET length == data[i + 1]
         IN IF length = 128 THEN RLResult(buf, i + 1)
            ELSE IF length < 128
            THEN LET count == IF i + 1 + length + 1 > Len(data)
                              THEN Len(data) - (i + 1)
                              ELSE length + 1
                 IN RunLoopShortRepeat(data, i + 1 + count,
                                       buf \o SubSeq(data, i + 2, i + 1 + count),
                                       i + 1 + count)
            ELSE IF i + 1 >= Len(data) THEN RLResult(buf, i + 1)
            ELSE RunLoopShortRepeat(data, i + 2,
                                    buf \o RepeatByte(data[i + 2], 256 - length), i + 2)

\* runLengthDecode's loop from offset i with the buffer buf; read is the end
\* of the last slice or index of data it has used.
RECURSIVE RunLoop(_, _, _, _)
RunLoop(data, i, buf, read) ==
    IF i >= Len(data) THEN RLResult(buf, read)
    ELSE LET length == data[i + 1]
         IN IF length = 128 THEN RLResult(buf, i + 1)
            ELSE IF length < 128
            THEN LET count == IF i + 1 + length + 1 > Len(data)
                              THEN Len(data) - (i + 1)
                              ELSE length + 1
                 IN RunLoop(data, i + 1 + count,
                            buf \o SubSeq(data, i + 2, i + 1 + count), i + 1 + count)
            ELSE IF i + 1 >= Len(data) THEN RLResult(buf, i + 1)
            ELSE RunLoop(data, i + 2, buf \o RepeatByte(data[i + 2], 257 - length), i + 2)

\* runLengthDecode(data); the outputs of these inputs are far below
\* maxDecompressedSize.
runLengthDecode(data) == RunLoop(data, 0, <<>>, 0)

RLInit ==
    /\ LoadIdle
    /\ ParseIdle
    /\ DocIdle
    /\ LayIdle
    /\ FiltIdle
    /\ RsIdle
    /\ ConvIdle
    /\ CmapIdle
    /\ VerIdle
    /\ OpIdle
    /\ decIn \in RLInputs
    /\ decOut = <<>>
    /\ decPc = "call"

\* A call of runLengthDecode.
RunLengthDecode ==
    /\ decPc = "call"
    /\ decOut' = runLengthDecode(decIn)
    /\ decPc' = "done"
    /\ UNCHANGED decIn
    /\ UNCHANGED notDecVars

RLNext == RunLengthDecode

SpecRL == RLInit /\ [][RLNext]_vars

\* PackBits, run by run: the runs of data from offset i, each with the bytes
\* it stands for; a run that the data end before is cut short.
RECURSIVE PackBits(_, _)
PackBits(data, i) ==
    IF i >= Len(data) \/ data[i + 1] = 128 THEN <<>>
    ELSE LET L == data[i + 1]
             rest == SubSeq(data, i + 2, Len(data))
         IN IF L <= 127
            THEN (IF Len(rest) >= L + 1 THEN SubSeq(rest, 1, L + 1) ELSE rest)
                 \o PackBits(data, i + 1 + L + 1)
            ELSE IF rest = <<>> THEN <<>>
            ELSE [k \in 1 .. (257 - L) |-> rest[1]] \o PackBits(data, i + 2)

MaxHexLen == 4

\* The bytes of the ASCIIHex inputs: hex digits, the terminator, white
\* space, and a letter that is no hex digit.
HexBytes == {"4", "A", "f", ">", " ", "\n", NUL, "g"}
HexInputs == UNION {[1 .. n -> HexBytes] : n \in 0 .. MaxHexLen}

\* hexVal(b): the value of a hex digit, 0 for any other byte.
hexVal(b) == hexValRune(b)

\* for i < len(data) && isWhitespace(data[i]) { i++ }
RECURSIVE SkipHexSpace(_, _)
SkipHexSpace(data, i) ==
    IF i < Len(data) /\ isWhitespace(data[i + 1]) THEN SkipHexSpace(data, i + 1) ELSE i

\* asciiHexDecode's loop without the skip between the two nibbles.
RECURSIVE HexLoopNoInnerSkip(_, _, _)
HexLoopNoInnerSkip(data, i, buf) ==
    IF i >= Len(data) THEN buf
    ELSE LET i1 == SkipHexSpace(data, i)
         IN IF i1 >= Len(data) THEN buf
            ELSE IF data[i1 + 1] = ">" THEN buf
            ELSE LET hi == hexVal(data[i1 + 1])
                     i2 == i1 + 1
                     hasLo == i2 < Len(data) /\ data[i2 + 1] # ">"
                     lo == IF hasLo THEN hexVal(data[i2 + 1]) ELSE 0
                 IN HexLoopNoInnerSkip(data, IF hasLo THEN i2 + 1 ELSE i2,
                                       Append(buf, hi * 16 + lo))

\* asciiHexDecode's loop from offset i with the buffer buf.
RECURSIVE AsciiHexLoop(_, _, _)
AsciiHexLoop(data, i, buf) ==
    IF i >= Len(data) THEN buf
    ELSE LET i1 == SkipHexSpace(data, i)
         IN IF i1 >= Len(data) THEN buf
            ELSE IF data[i1 + 1] = ">" THEN buf
            ELSE LET hi == hexVal(data[i1 + 1])
                     i2 == SkipHexSpace(data, i1 + 1)
                     hasLo == i2 < Len(data) /\ data[i2 + 1] # ">"
                     lo == IF hasLo THEN hexVal(data[i2 + 1]) ELSE 0
                 IN AsciiHexLoop(data, IF hasLo THEN i2 + 1 ELSE i2,
                                 Append(buf, hi * 16 + lo))

\* asciiHexDecode(data)
asciiHexDecode(data) == AsciiHexLoop(data, 0, <<>>)

HexInit ==
    /\ LoadIdle
    /\ ParseIdle
    /\ DocIdle
    /\ LayIdle
    /\ FiltIdle
    /\ RsIdle
    /\ ConvIdle
    /\ CmapIdle
    /\ VerIdle
    /\ OpIdle
    /\ decIn \in HexInputs
    /\ decOut = <<>>
    /\ decPc = "call"

\* A call of asciiHexDecode.
AsciiHexDecode ==
    /\ decPc = "call"
    /\ decOut' = asciiHexDecode(decIn)
    /\ decPc' = "done"
    /\ UNCHANGED decIn
    /\ UNCHANGED notDecVars

HexNext == AsciiHexDecode

SpecHex == HexInit /\ [][HexNext]_vars

\* The bytes of data before the first ">", and data with the byte w
\* inserted at offset p.
BeforeTerminator(data) ==
    LET hits == {i \in 1 .. Len(data) : data[i] = ">"}
    IN IF hits = {} THEN data
       ELSE SubSeq(data, 1, (CHOOSE i \in hits : \A j \in hits : i <= j) - 1)
InsertAt(data, p, w) == SubSeq(data, 1, p) \o <<w>> \o SubSeq(data, p + 1, Len(data))

\* The digits of data: its bytes without the white space.
RECURSIVE HexDigitsOf(_)
HexDigitsOf(data) ==
    IF data = <<>> THEN <<>>
    ELSE (IF isWhitespace(Head(data)) THEN <<>> ELSE <<Head(data)>>)
         \o HexDigitsOf(Tail(data))

\* The bytes that pairs of digits stand for, a last odd digit being the high
\* nibble of a byte whose low nibble is 0.
BytesOfPairs(ds) ==
    [k \in 1 .. ((Len(ds) + 1) \div 2) |->
        16 * hexValRune(ds[2 * k - 1])
        + (IF 2 * k <= Len(ds) THEN hexValRune(ds[2 * k]) ELSE 0)]

\* C18: asciiHexDecode is whitespace-insensitive: PDF white space inserted
\* anywhere before the terminator, between pairs or inside a pair, does not
\* change the output; decoding stops at the first ">", and an odd final digit
\* is completed with a low nibble of 0.
C18_WhitespaceInsensitive ==
    decPc = "done" =>
        /\ \A p \in 0 .. Len(BeforeTerminator(decIn)) :
              \A w \in {" ", "\t", "\r", "\n", "\f", NUL} :
                 asciiHexDecode(InsertAt(decIn, p, w)) = decOut
        /\ decOut = BytesOfPairs(HexDigitsOf(BeforeTerminator(decIn)))

\* C18 witness: white space inside a pair, an odd final digit, and bytes
\* after the terminator.
C18_Witness ==
    /\ decPc = "done"
    /\ decIn = <<"4", " ", "A", "f">>
    /\ decOut = <<74, 240>>

(***************************************************************************)
(* Converter: Close, ConvertHTML, ConvertURL, ConvertFile, convert         *)
(***************************************************************************)

\* The goroutines that call the Converter's methods.
NumCallers == 2
Callers == 1 .. NumCallers

\* time.Second, in seconds.
Second == 1

\* defaultConfig(): the timeout is 30 * time.Second.
defaultConfig == [timeout |-> 30 * Second]

\* WithTimeout(d) applied to the configuration c.
WithTimeout(d, c) == [c EXCEPT !.timeout = d]

\* The durations NewConverter is given with WithTimeout: negative, zero,
\* positive.
Timeouts == {0 - Second, 0, 60 * Second}
Configs == {defaultConfig} \cup {WithTimeout(d, defaultConfig) : d \in Timeouts}

\* The Converter NewConverter returns for the configuration cfg; the
\* counters are the calls of browserCancel and allocCancel so far.
NewConverter(cfg) ==
    [cfg |-> cfg, closed |-> FALSE, browserCancels |-> 0, allocCancels |-> 0,
     closeReturned |-> FALSE]

\* c.browserCtx is done once browserCancel has been called.
BrowserCtxDone(c) == c.browserCancels > 0

ConvertOps == {"ConvertHTML", "ConvertURL", "ConvertFile"}

\* A caller that has called nothing yet.
NoCall ==
    [op |-> "none", pc |-> "idle", ret |-> "none", afterClose |-> FALSE,
     callerDone |-> FALSE, timer |-> "off", madeTemp |-> FALSE, tab |-> FALSE,
     late |-> FALSE]

ConvInit ==
    /\ LoadIdle
    /\ ParseIdle
    /\ DocIdle
    /\ LayIdle
    /\ FiltIdle
    /\ RsIdle
    /\ CmapIdle
    /\ VerIdle
    /\ OpIdle
    /\ DecIdle
    /\ conv \in {NewConverter(cfg) : cfg \in Configs}
    /\ calls = [p \in Callers |-> NoCall]

\* Close without the test of c.closed.
CloseUnguarded(c) ==
    [c EXCEPT !.closed = TRUE,
              !.browserCancels = @ + 1,
              !.allocCancels = @ + 1,
              !.closeReturned = TRUE]

\* Close, under c.mu: the Converter when it returns nil.
Close(c) ==
    IF c.closed THEN [c EXCEPT !.closeReturned = TRUE]
    ELSE [c EXCEPT !.closed = TRUE,
                   !.browserCancels = @ + 1,
                   !.allocCancels = @ + 1,
                   !.closeReturned = TRUE]

\* checkClosed, under c.mu.
checkClosed(c) == IF c.closed THEN "ErrClosed" ELSE "nil"

\* The context chromedp.Run waits on in the call cl, tabCtx, is a child of
\* c.browserCtx; the ctx of context.WithTimeout is a child of the caller's.
TabCtxDone(c, cl) == BrowserCtxDone(c)
CtxDone(cl) == cl.callerDone \/ cl.timer = "fired"

\* A caller calls a method.
StartCall(p) ==
    /\ calls[p].pc \in {"idle", "returned"}
    /\ \E op \in ConvertOps \cup {"Close"} :
          calls' = [calls EXCEPT ![p] =
              [NoCall EXCEPT !.op = op, !.pc = "entry",
                             !.afterClose = conv.closeReturned]]
    /\ UNCHANGED conv
    /\ UNCHANGED notConvVars

\* Converter.Close
CallClose(p) ==
    /\ calls[p].pc = "entry"
    /\ calls[p].op = "Close"
    /\ conv' = Close(conv)
    /\ calls' = [calls EXCEPT ![p].pc = "returned", ![p].ret = "nil"]
    /\ UNCHANGED notConvVars

\* if err := c.checkClosed(); err != nil { return nil, err }
CheckClosed(p) ==
    /\ calls[p].pc = "entry"
    /\ calls[p].op \in ConvertOps
    /\ calls' = [calls EXCEPT ![p] =
           IF checkClosed(conv) = "nil" THEN [@ EXCEPT !.pc = "checked"]
           ELSE [@ EXCEPT !.pc = "returned", !.ret = checkClosed(conv)]]
    /\ UNCHANGED conv
    /\ UNCHANGED notConvVars

\* What ConvertHTML, ConvertURL and ConvertFile do before they call convert:
\* the temp file, url.ParseRequestURI, filepath.Abs and os.Stat, each of
\* which may fail.
Prepare(p) ==
    /\ calls[p].pc = "checked"
    /\ \E created \in BOOLEAN, ok \in BOOLEAN :
          /\ created = FALSE => ~ok
          /\ calls[p].op # "ConvertHTML" => created
          /\ calls' = [calls EXCEPT ![p] =
                 [@ EXCEPT !.madeTemp = created /\ calls[p].op = "ConvertHTML",
                           !.pc = IF ok THEN "convert" ELSE "returned",
                           !.ret = IF ok THEN "none" ELSE "error"]]
    /\ UNCHANGED conv
    /\ UNCHANGED notConvVars

\* convert up to chromedp.Run: context.WithTimeout when c.cfg.timeout > 0,
\* then chromedp.NewContext(c.browserCtx).
ConvertBegin(p) ==
    /\ calls[p].pc = "convert"
    /\ calls' = [calls EXCEPT ![p] =
           [@ EXCEPT !.timer = IF conv.cfg.timeout > 0 THEN "armed" ELSE "off",
                     !.tab = TRUE,
                     !.pc = "run"]]
    /\ UNCHANGED conv
    /\ UNCHANGED notConvVars

\* The timeout of context.WithTimeout elapses.
TimerFires(p) ==
    /\ calls[p].pc = "run"
    /\ calls[p].timer = "armed"
    /\ calls' = [calls EXCEPT ![p].timer = "fired"]
    /\ UNCHANGED conv
    /\ UNCHANGED notConvVars

\* The caller cancels the context it passed.
CallerCancel(p) ==
    /\ calls[p].pc = "run"
    /\ ~calls[p].callerDone
    /\ calls' = [calls EXCEPT ![p].callerDone = TRUE]
    /\ UNCHANGED conv
    /\ UNCHANGED notConvVars

\* chromedp.Run(tabCtx, ...) returns, when the browser has printed, when it
\* has failed, or when tabCtx is done, and convert after it with the
\* deferred tabCancel and cancel; late records that ctx was done before.
RunReturns(p) ==
    /\ calls[p].pc = "run"
    /\ \E outcome \in {"Result", "error"} :
          /\ TabCtxDone(conv, calls[p]) => outcome = "error"
          /\ calls' = [calls EXCEPT ![p] =
                 [@ EXCEPT !.pc = "returned",
                           !.ret = outcome,
                           !.late = CtxDone(calls[p]),
                           !.timer = "off",
                           !.callerDone = FALSE]]
    /\ UNCHANGED conv
    /\ UNCHANGED notConvVars

ConvNext ==
    \E p \in Callers :
        \/ StartCall(p)
        \/ CallClose(p)
        \/ CheckClosed(p)
        \/ Prepare(p)
        \/ ConvertBegin(p)
        \/ TimerFires(p)
        \/ CallerCancel(p)
        \/ RunReturns(p)

SpecConv == ConvInit /\ [][ConvNext]_vars

\* C19: the closed state is absorbing: every Close returns nil, browserCancel
\* and allocCancel are called at most once and exactly once when a Close has
\* returned, and a ConvertHTML, ConvertURL or ConvertFile call that starts
\* after a Close has returned creates no temp file and no tab and returns
\* ErrClosed.
C19_ClosedAbsorbing ==
    /\ conv.browserCancels <= 1
    /\ conv.allocCancels <= 1
    /\ conv.closeReturned =>
          conv.closed /\ conv.browserCancels = 1 /\ conv.allocCancels = 1
    /\ \A p \in Callers :
          /\ (calls[p].op = "Close" /\ calls[p].pc = "returned") =>
                calls[p].ret = "nil"
          /\ (calls[p].op \in ConvertOps /\ calls[p].afterClose) =>
                /\ ~calls[p].madeTemp
                /\ ~calls[p].tab
                /\ calls[p].pc \in {"entry", "returned"}
                /\ calls[p].pc = "returned" => calls[p].ret = "ErrClosed"

\* C19 witness: a second Close has returned, and a ConvertHTML that started
\* after the first has returned too.
C19_Witness ==
    /\ calls[1].op = "Close"
    /\ calls[1].afterClose
    /\ calls[1].pc = "returned"
    /\ calls[2].op = "ConvertHTML"
    /\ calls[2].afterClose
    /\ calls[2].pc = "returned"
    /\ calls[2].ret = "ErrClosed"
    /\ conv.browserCancels = 1

\* C20: a conversion whose context was done, by the timeout or by the
\* caller's cancellation, before the browser had finished returns an error.
C20_TimeoutBounds ==
    \A p \in Callers :
        (calls[p].pc = "returned" /\ calls[p].late) => calls[p].ret = "error"

\* C21: no conversion opens a tab on a browser context that Close has
\* cancelled: convert never reaches chromedp.NewContext(c.browserCtx) and
\* chromedp.Run once browserCancel has been called, and a conversion that a
\* Close overtakes returns ErrClosed or the Result of browser work done before.
C21_NoTabAfterCancel ==
    [][\A p \in Callers :
          /\ (calls[p].pc = "convert" /\ calls'[p].pc = "run") => ~BrowserCtxDone(conv)
          /\ (calls[p].pc = "run" /\ calls'[p].pc = "returned" /\ BrowserCtxDone(conv)) =>
                calls'[p].ret \in {"ErrClosed", "Result"}]_vars

(***************************************************************************)
(* Claims about chained xref sections                                      *)
(***************************************************************************)

\* The section at startxref, a table or an xref stream, has a /Prev that
\* points to another offset, and the section read there is a classical table
\* whose trailer has no /Prev.
PrevChain ==
    /\ Len(loadOrder) >= 2
    /\ LET s1 == loadOrder[1]
           s2 == loadOrder[2]
       IN /\ s1 # s2
          /\ file[s1].kind \in {"table", "stream"}
          /\ file[s1].tobj = "dict"
          /\ <<"Prev", s2>> \in file[s1].dict
          /\ file[s2].kind = "table"
          /\ file[s2].tobj = "dict"
          /\ ~HasKey(file[s2].dict, "Prev")

\* C22: for a section S1 at startxref whose /Prev points to the table S2,
\* whose trailer has no /Prev, Load reads S1 and then S2, each exactly once,
\* and returns successfully.
C22_PrevChainFollowed ==
    PrevChain =>
        /\ loadOrder = <<loadOrder[1], loadOrder[2]>>
        /\ loadPc = "done"

(***************************************************************************)
(* Resolver on the bytes: resolveCompressed                                *)
(***************************************************************************)

\* The object number of the object stream, and the numbers of the objects
\* an object stream may list.
ContainerID == 3
MemberIDs == {4, 5, 6}

\* The objects stored in an object stream: integers of one and two digits.
MemberTokens == {<<"7">>, <<"7", "7">>, <<"9">>}

\* The decoded data of an object stream of two objects a and b with the
\* bodies ta and tb: the header "a 0 b off ", then at /First the bodies with
\* a space between them.
ObjStmData(a, b, ta, tb) ==
    <<DigitOf(a), " ", "0", " ", DigitOf(b), " ", DigitOf(Len(ta) + 1), " ">>
    \o ta \o <<" ">> \o tb

\* The calls of resolveCompressed: the container's decoded data with /N and
\* /First, and the xref entry of the object number n asked for. The entry
\* of a listed object holds its index in the stream.
CompressedCalls ==
    {[data |-> ObjStmData(a, b, ta, tb), N |-> 2, First |-> 8, n |-> n,
      entry |-> [ZeroEntry EXCEPT !.Compressed = TRUE, !.InUse = TRUE,
                                  !.StreamObjID = ContainerID, !.IndexInStrm = k]] :
        a \in MemberIDs, b \in MemberIDs, ta \in MemberTokens, tb \in MemberTokens,
        n \in MemberIDs, k \in {0, 1}}

\* strconv.Atoi with the error dropped.
Atoi(tok) == IF IsIntTok(tok) THEN IntVal(tok) ELSE 0

\* The loop over the header of an object stream: offsets after the pairs
\* i .. n - 1, read from pos.
RECURSIVE HeaderLoop(_, _, _, _, _)
HeaderLoop(data, pos, i, n, offsets) ==
    IF i >= n THEN offsets
    ELSE LET p1 == skipWhitespace(data, pos)
             e1 == readToken(data, p1)
             p2 == skipWhitespace(data, e1)
             e2 == readToken(data, p2)
         IN HeaderLoop(data, e2, i + 1, n,
                       MapSet(offsets, Atoi(Slice(data, p1, e1)), Atoi(Slice(data, p2, e2))))

\* NewParser(data, pos).ParseObject() for data that hold numbers.
ParseObjectAt(data, pos) ==
    LET p == skipWhitespace(data, pos)
    IN IF p >= Len(data) THEN Obj("Null") ELSE ParseLeaf(data, p).obj

\* resolveCompressed(entry) once the container is resolved and decompressed.
resolveCompressed(data, n, first, entry) ==
    LET offsets == HeaderLoop(data, 0, 0, n, EmptyMap)
        off == IF entry.StreamObjID \in DOMAIN offsets THEN offsets[entry.StreamObjID]
               ELSE entry.IndexInStrm
        objPos == IF first + off > Len(data) THEN first + entry.IndexInStrm
                  ELSE first + off
    IN ParseObjectAt(data, objPos)

CompressedInit ==
    /\ LoadIdle
    /\ ParseIdle
    /\ DocIdle
    /\ LayIdle
    /\ FiltIdle
    /\ CmapIdle
    /\ VerIdle
    /\ OpIdle
    /\ DecIdle
    /\ ConvIdle
    /\ rsIn \in {c \in CompressedCalls :
                   LET ids == <<DigitVal(c.data[1]), DigitVal(c.data[5])>>
                   IN /\ ids[1] # ids[2]
                      /\ \A i \in 1 .. 2 : ids[i] = c.n => c.entry.IndexInStrm = i - 1}
    /\ rsOut = <<>>
    /\ rsPc = "call"

\* ResolveRef of a compressed object: the call of resolveCompressed.
ResolveCompressed ==
    /\ rsPc = "call"
    /\ rsOut' = resolveCompressed(rsIn.data, rsIn.N, rsIn.First, rsIn.entry)
    /\ rsPc' = "done"
    /\ UNCHANGED rsIn
    /\ UNCHANGED notRsVars

CompressedNext == ResolveCompressed

SpecCompressed == CompressedInit /\ [][CompressedNext]_vars

\* The header pairs of the object stream data, as a map from the object
\* number to its offset.
HeaderPairs(data) ==
    [id \in {DigitVal(data[1]), DigitVal(data[5])} |->
        IF id = DigitVal(data[1]) THEN DigitVal(data[3]) ELSE DigitVal(data[7])]

\* C23: resolving a compressed object n returns the object parsed at
\* First + off_n, (n, off_n) being the header pair listed for n, at every
\* index of the stream.
C23_ObjectAtHeaderOffset ==
    (rsPc = "done" /\ rsIn.n \in DOMAIN HeaderPairs(rsIn.data)) =>
        rsOut = ParseObjectAt(rsIn.data, rsIn.First + HeaderPairs(rsIn.data)[rsIn.n])

(***************************************************************************)
(* Resolver on the bytes: resolveAtOffset and an indirect /Length          *)
(***************************************************************************)

\* The payloads of the streams with an indirect /Length: short ones with
\* letters and line feeds, and two that contain the text endstream.
RefBodies ==
    UNION {[1 .. n -> {"a", "\n"}] : n \in 0 .. MaxBody}
    \cup {KwEndstream, <<"a">> \o KwEndstream \o <<"b">>}

\* What follows the payload: endstream at once or after an end-of-line.
RefRests == {KwEndstream, <<"\n">> \o KwEndstream, <<"\r", "\n">> \o KwEndstream}

\* What the reference of /Length resolves to for a payload of L bytes: the
\* integer L, or Null for a reference to no object.
LengthObjs(L) == {[Obj("Int") EXCEPT !.Int = L], Obj("Null")}

\* The calls of resolveAtOffset on "N G obj << /Length 5 0 R >>" followed by
\* data: the bytes after the dictionary, the payload among them, and the
\* object its /Length resolves to.
AtOffsetCalls ==
    {[data |-> KwStream \o <<"\n">> \o body \o rest, body |-> body, lenObj |-> l] :
        body \in RefBodies, rest \in RefRests, l \in LengthObjs(0)}
    \cup {[data |-> KwStream \o <<"\n">> \o body \o rest, body |-> body,
           lenObj |-> [Obj("Int") EXCEPT !.Int = Len(body)]] :
             body \in RefBodies, rest \in RefRests}

\* ParseObject on the bytes of the object: the loop of parseDict has stored
\* the reference under /Length, which is no ObjInt, so that length stays -1;
\* the object, and the type of its Dict's /Length.
ParseStreamObject(data) ==
    [obj |-> DictTail(data, 0, 1, 0 - 1).obj, LengthType |-> "Ref", LengthInt |-> 0]

\* resolveAtOffset from the first ParseObject on: with an integer lenObj the
\* first object's Dict gets lenObj, and the object returned is the one the
\* second ParseObject reads from the bytes.
resolveAtOffset(data, lenObj) ==
    LET obj == ParseStreamObject(data)
    IN IF obj.obj.Type = "Stream" /\ obj.LengthType = "Ref" /\ lenObj.Type = "Int"
       THEN ParseStreamObject(data)
       ELSE obj

AtOffsetInit ==
    /\ LoadIdle
    /\ ParseIdle
    /\ DocIdle
    /\ LayIdle
    /\ FiltIdle
    /\ CmapIdle
    /\ VerIdle
    /\ OpIdle
    /\ DecIdle
    /\ ConvIdle
    /\ rsIn \in AtOffsetCalls
    /\ rsOut = <<>>
    /\ rsPc = "call"

\* ResolveRef of an object stored at an offset: the call of resolveAtOffset.
ResolveAtOffset ==
    /\ rsPc = "call"
    /\ rsOut' = resolveAtOffset(rsIn.data, rsIn.lenObj)
    /\ rsPc' = "done"
    /\ UNCHANGED rsIn
    /\ UNCHANGED notRsVars

AtOffsetNext == ResolveAtOffset

SpecAtOffset == AtOffsetInit /\ [][AtOffsetNext]_vars

\* C24: a stream whose /Length is a reference that resolves to the integer L,
\* the length of its payload, is returned with exactly the L bytes after the
\* end-of-line of the keyword stream and with the integer L as its /Length.
C24_IndirectLength ==
    (rsPc = "done" /\ rsIn.lenObj.Type = "Int" /\ rsIn.lenObj.Int = Len(rsIn.body)) =>
        /\ rsOut.obj.Type = "Stream"
        /\ rsOut.obj.Stream = rsIn.body
        /\ rsOut.LengthType = "Int"
        /\ rsOut.LengthInt = Len(rsIn.body)

(***************************************************************************)
(* Object parser: successive ParseObject calls over numbers                *)
(***************************************************************************)

\* The longest input of numbers.
MaxNumLen == 5

\* The inputs: every string of digits, R, a letter, a space and a delimiter
\* up to MaxNumLen bytes, and the three of the tests.
NumberBytes == {"1", "2", "R", "x", " ", "/"}
NumberInputs ==
    UNION {[1 .. n -> NumberBytes] : n \in 0 .. MaxNumLen}
    \cup {<<"1", " ", "2", " ", "3">>, <<"1", " ", "2", " ", "R">>,
          <<"1", " ", "2", " ", "R", "x">>}

NumInit ==
    /\ ExtIdle
    /\ LoadIdle
    /\ FiltIdle
    /\ DocIdle
    /\ LayIdle
    /\ pdata \in NumberInputs
    /\ ppos = 0
    /\ pdepth = 0
    /\ pstack = <<>>
    /\ ppc = "object"
    /\ presult = <<>>

\* One ParseObject call of a caller that calls it until the data end or a
\* call consumes nothing; presult collects the objects.
ParseNextObject ==
    /\ ppc = "object"
    /\ LET p1 == skipWhitespace(pdata, ppos)
           r == IF p1 >= Len(pdata) THEN Parsed(Obj("Null"), p1) ELSE ParseLeaf(pdata, p1)
       IN /\ presult' = Append(presult, r.obj)
          /\ ppos' = r.pos
          /\ ppc' = IF p1 >= Len(pdata) \/ r.pos = ppos THEN "done" ELSE "object"
    /\ UNCHANGED <<pdata, pdepth, pstack>>
    /\ UNCHANGED notParseVars

NumNext == ParseNextObject

SpecNum == NumInit /\ [][NumNext]_vars

\* The end of the run of bytes from p that are all in (or all outside) a
\* set of bytes.
RunEnd(data, p, in) ==
    LET stops == {e \in p .. Len(data) : e = Len(data) \/ ~in[data[e + 1]]}
    IN CHOOSE e \in stops : \A f \in stops : e <= f
IsBlank == [b \in NumberBytes \cup {"3"} |-> b = " "]
RegularOf == [b \in NumberBytes \cup {"3"} |-> b \notin {" ", "/"}]

\* The tokens ahead of p: the first, the second, and the byte after the
\* blanks that follow the second.
TokensAhead(data, p) ==
    LET e1 == RunEnd(data, p, RegularOf)
        b1 == RunEnd(data, e1, IsBlank)
        e2 == RunEnd(data, b1, RegularOf)
        b2 == RunEnd(data, e2, IsBlank)
    IN [first |-> SubSeq(data, p + 1, e1), afterFirst |-> e1,
        second |-> SubSeq(data, b1 + 1, e2), third |-> b2]

AllDigits(tok) == tok # <<>> /\ \A i \in 1 .. Len(tok) : tok[i] \in Digits

\* An integer, an integer and an R that ends the data or is followed by a
\* blank or a delimiter are ahead of p.
RefAhead(data, p) ==
    LET t == TokensAhead(data, p)
    IN /\ AllDigits(t.first)
       /\ AllDigits(t.second)
       /\ t.third < Len(data)
       /\ data[t.third + 1] = "R"
       /\ t.third + 1 = Len(data) \/ ~RegularOf[data[t.third + 2]]

\* C25: the lookahead for a reference restores the cursor: a call that finds
\* an integer not followed by an integer and a terminated R returns that
\* integer alone and leaves the cursor right after it; a call that finds
\* "N G R" returns the reference and leaves the cursor after the R.
C25_LookaheadRestored ==
    [][LET p == RunEnd(pdata, ppos, IsBlank)
           t == TokensAhead(pdata, p)
       IN (ppc = "object" /\ AllDigits(t.first)) =>
             IF RefAhead(pdata, p)
             THEN /\ presult' = Append(presult,
                         [Obj("Ref") EXCEPT !.Int = DigitsVal(t.first),
                                            !.Gen = DigitsVal(t.second)])
                  /\ ppos' = t.third + 1
             ELSE /\ presult' = Append(presult,
                         [Obj("Int") EXCEPT !.Int = DigitsVal(t.first)])
                  /\ ppos' = t.afterFirst]_vars

\* C25 witness: the calls over "1 2 3" have returned 1, 2 and 3.
C25_Witness ==
    /\ pdata = <<"1", " ", "2", " ", "3">>
    /\ Len(presult) >= 3
    /\ presult[1] = [Obj("Int") EXCEPT !.Int = 1]
    /\ presult[2] = [Obj("Int") EXCEPT !.Int = 2]
    /\ presult[3] = [Obj("Int") EXCEPT !.Int = 3]

(***************************************************************************)
(* Object parser: the bytes of a hex string                                *)
(***************************************************************************)

\* The most bytes between "<" and ">".
MaxHexStr == 4

\* The hex strings: digits, a space and a line feed between "<" and ">".
HexStringInputs ==
    {<<"<">> \o body \o <<">">> :
        body \in UNION {[1 .. n -> {"4", "8", " ", "\n"}] : n \in 0 .. MaxHexStr}}

\* The loop of parseHexString from pos: buf.Bytes().
RECURSIVE HexStringLoop(_, _, _)
HexStringLoop(data, pos, buf) ==
    IF ~(pos < Len(data) /\ At(data, pos) # ">") THEN buf
    ELSE LET p1 == skipWhitespace(data, pos)
         IN IF p1 >= Len(data) \/ At(data, p1) = ">" THEN buf
            ELSE LET hi == hexVal(At(data, p1))
                     hasLo == p1 + 1 < Len(data) /\ At(data, p1 + 1) # ">"
                     lo == IF hasLo THEN hexVal(At(data, p1 + 1)) ELSE 0
                 IN HexStringLoop(data, IF hasLo THEN p1 + 2 ELSE p1 + 1,
                                  Append(buf, hi * 16 + lo))

\* The Str of the object parseHexString returns for the "<" at pos.
HexStringStr(data, pos) == HexStringLoop(data, pos + 1, <<>>)

HexStrInit ==
    /\ ExtIdle
    /\ LoadIdle
    /\ FiltIdle
    /\ DocIdle
    /\ LayIdle
    /\ pdata \in HexStringInputs
    /\ ppos = 0
    /\ pdepth = 0
    /\ pstack = <<>>
    /\ ppc = "object"
    /\ presult = <<>>

\* ParseObject on a hex string: presult is the Str of the object.
ParseHexString ==
    /\ ppc = "object"
    /\ Dispatch(pdata, ppos) = "hex"
    /\ presult' = <<HexStringStr(pdata, ppos)>>
    /\ ppos' = parseHexString(pdata, ppos).pos
    /\ ppc' = "done"
    /\ UNCHANGED <<pdata, pdepth, pstack>>
    /\ UNCHANGED notParseVars

HexStrNext == ParseHexString

SpecHexStr == HexStrInit /\ [][HexStrNext]_vars

\* data without its white space.
RECURSIVE WithoutSpace(_)
WithoutSpace(data) ==
    IF data = <<>> THEN <<>>
    ELSE (IF Head(data) \in {" ", "\n"} THEN <<>> ELSE <<Head(data)>>)
         \o WithoutSpace(Tail(data))

\* C26: a hex string gives the bytes of the same string with all its white
\* space removed, wherever the white space is.
C26_HexStringWhitespace ==
    ppc = "done" => presult[1] = HexStringStr(WithoutSpace(pdata), 0)

(***************************************************************************)
(* Content-stream interpreter: processOperator on every operator           *)
(***************************************************************************)

\* The most operators of a content stream.
MaxTextOps == 3

\* A name operand, and the name of the font that is in fonts.
NameOperand(bytes) == [Operand("Name") EXCEPT !.Str = bytes]
KnownFont == <<70>>

\* The operators: those of the switch, and "re" for every other operator.
TextOperators ==
    {"q", "Q", "cm", "BT", "ET", "Tf", "Tc", "Tw", "TL", "Td", "TD", "Tm", "T*",
     "Tj", "TJ", "'", "\"", "BMC", "re"}
ShowOperators == {"Tj", "TJ", "'", "\""}

\* The operand stacks an operator is processed with: those the operator is
\* defined for, and stacks that are too short or of another type.
MatrixStack(e, f) ==
    <<IntOperand(1), IntOperand(0), IntOperand(0), IntOperand(1), IntOperand(e),
      IntOperand(f)>>
TextStacks(op) ==
    CASE op \in {"cm", "Tm"} ->
            {MatrixStack(50, 0 - 20), <<IntOperand(50), IntOperand(0 - 20)>>}
      [] op = "Tf" ->
            {<<NameOperand(KnownFont), IntOperand(12)>>, <<NameOperand(<<71>>), IntOperand(12)>>}
      [] op \in {"Tc", "Tw"} -> {<<IntOperand(2)>>}
      [] op = "TL" -> {<<IntOperand(14)>>, <<>>}
      [] op \in {"Td", "TD"} -> TdStacks \cup {<<IntOperand(50)>>}
      [] op = "Tj" ->
            {<<StringOperand(<<97>>)>>, <<StringOperand(<<10>>)>>, <<IntOperand(5)>>, <<>>}
      [] op = "TJ" ->
            {<<ArrayOperand(<<StringOperand(<<97>>), IntOperand(0 - 101)>>)>>,
             <<ArrayOperand(<<IntOperand(0 - 100)>>)>>,
             <<StringOperand(<<97>>)>>}
      [] op = "'" -> {<<StringOperand(<<97>>)>>, <<StringOperand(<<10>>)>>, <<>>}
      [] op = "\"" ->
            {<<IntOperand(1), IntOperand(3), StringOperand(<<97>>)>>,
             <<StringOperand(<<97>>)>>}
      [] OTHER -> {<<>>}

\* The textState with inText and whether fonts has ts.fontName, numbers in
\* tenths; newTextState() before the first operator of a page whose fonts
\* do or do not hold the font named "".
NewTextState(hasFont) ==
    [inText |-> FALSE, hasFont |-> hasFont, fontSize |-> 120, charSpacing |-> 0,
     wordSpacing |-> 0, tx |-> 0, ty |-> 0, lx |-> 0, ly |-> 0, leading |-> 0,
     ctm |-> <<10, 0, 0, 10, 0, 0>>]

\* What processOperator leaves: the textState and the spans.
Processed(t, sp) == [ts |-> t, spans |-> sp]

\* The span appended wherever the interpreter is, in a text object or not.
ShowTextAnywhere(t, sp, text) ==
    IF text # <<>>
    THEN Append(sp, [x |-> t.tx, y |-> t.ty, text |-> text, fontSize |-> t.fontSize])
    ELSE sp

\* if *inText ... { if text != "" { *spans = append(*spans, textSpan{...}) } }
ShowText(t, sp, text) ==
    IF t.inText /\ text # <<>>
    THEN Append(sp, [x |-> t.tx, y |-> t.ty, text |-> text, fontSize |-> t.fontSize])
    ELSE sp

\* The next line with the text position left where it was.
NextLineKeepsText(t) == [t EXCEPT !.lx = 0, !.ly = t.ly - t.leading]

\* ts.lx = 0; ts.ly -= ts.leading; ts.tx = ts.lx; ts.ty = ts.ly
NextLine(t) ==
    [t EXCEPT !.lx = 0, !.ly = t.ly - t.leading, !.tx = 0, !.ty = t.ly - t.leading]

\* processOperator(op, stack, ts, inText, spans, fonts) with args the stack.
processOperator(op, args, t, sp) ==
    CASE op = "cm" ->
            Processed(IF Len(args) >= 6
                      THEN [t EXCEPT !.ctm = [i \in 1 .. 6 |-> floatArg(args[i])]]
                      ELSE t, sp)
      [] op = "BT" ->
            Processed([t EXCEPT !.inText = TRUE, !.tx = 0, !.ty = 0, !.lx = 0, !.ly = 0],
                      sp)
      [] op = "ET" -> Processed([t EXCEPT !.inText = FALSE], sp)
      [] op = "Tf" ->
            Processed(IF Len(args) >= 2
                      THEN [t EXCEPT !.hasFont = IF args[1].Type = "Name"
                                                 THEN args[1].Str = KnownFont ELSE @,
                                     !.fontSize = floatArg(args[2])]
                      ELSE t, sp)
      [] op = "Tc" ->
            Processed(IF Len(args) >= 1 THEN [t EXCEPT !.charSpacing = floatArg(args[1])]
                      ELSE t, sp)
      [] op = "Tw" ->
            Processed(IF Len(args) >= 1 THEN [t EXCEPT !.wordSpacing = floatArg(args[1])]
                      ELSE t, sp)
      [] op = "TL" ->
            Processed(IF Len(args) >= 1 THEN [t EXCEPT !.leading = floatArg(args[1])]
                      ELSE t, sp)
      [] op = "Td" ->
            Processed(IF Len(args) >= 2
                      THEN [t EXCEPT !.lx = t.lx + floatArg(args[1]),
                                     !.ly = t.ly + floatArg(args[2]),
                                     !.tx = t.lx + floatArg(args[1]),
                                     !.ty = t.ly + floatArg(args[2])]
                      ELSE t, sp)
      [] op = "TD" ->
            Processed(IF Len(args) >= 2
                      THEN [t EXCEPT !.leading = 0 - floatArg(args[2]),
                                     !.lx = t.lx + floatArg(args[1]),
                                     !.ly = t.ly + floatArg(args[2]),
                                     !.tx = t.lx + floatArg(args[1]),
                                     !.ty = t.ly + floatArg(args[2])]
                      ELSE t, sp)
      [] op = "Tm" ->
            Processed(IF Len(args) >= 6
                      THEN [t EXCEPT !.tx = floatArg(args[5]), !.ty = floatArg(args[6]),
                                     !.lx = floatArg(args[5]), !.ly = floatArg(args[6])]
                      ELSE t, sp)
      [] op = "T*" -> Processed(NextLine(t), sp)
      [] op = "Tj" ->
            Processed(t, IF Len(args) >= 1
                         THEN ShowText(t, sp, decodeTextObj(args[1], t.hasFont))
                         ELSE sp)
      [] op = "TJ" ->
            Processed(t, IF Len(args) >= 1 /\ args[1].Type = "Array"
                         THEN ShowText(t, sp, ShowArray(args[1].Array, t.hasFont))
                         ELSE sp)
      [] op = "'" ->
            Processed(NextLine(t),
                      IF Len(args) >= 1
                      THEN ShowText(NextLine(t), sp, decodeTextObj(args[1], t.hasFont))
                      ELSE sp)
      [] op = "\"" ->
            LET t1 == IF Len(args) >= 3
                      THEN [t EXCEPT !.wordSpacing = floatArg(args[1]),
                                     !.charSpacing = floatArg(args[2])]
                      ELSE t
            IN Processed(NextLine(t1),
                         IF Len(args) >= 3
                         THEN ShowText(NextLine(t1), sp, decodeTextObj(args[3], t.hasFont))
                         ELSE sp)
      [] OTHER -> Processed(t, sp)

TextInit ==
    /\ LoadIdle
    /\ ParseIdle
    /\ DocIdle
    /\ FiltIdle
    /\ RsIdle
    /\ ConvIdle
    /\ CmapIdle
    /\ VerIdle
    /\ DecIdle
    /\ spans = <<>>
    /\ pageText = <<>>
    /\ layPc = "idle"
    /\ ts \in {NewTextState(f) : f \in BOOLEAN}
    /\ opLast = [op |-> "", args |-> <<>>]
    /\ opCount = 0

\* parseContentStream has read an operator: processOperator takes the
\* stack.
ProcessOperator ==
    /\ opCount < MaxTextOps
    /\ \E op \in TextOperators :
          \E args \in TextStacks(op) :
             /\ opLast' = [op |-> op, args |-> args]
             /\ ts' = processOperator(op, args, ts, spans).ts
             /\ spans' = processOperator(op, args, ts, spans).spans
    /\ opCount' = opCount + 1
    /\ UNCHANGED notOpVars

TextNext == ProcessOperator

SpecText == TextInit /\ [][TextNext]_vars

\* The operator processed by a step, and its operands.
StepOp == opLast'.op
StepArgs == opLast'.args
TextStep == opCount' = opCount + 1

\* The stack holds exactly the operands the text-showing operator takes.
ShowOperands(op, args) ==
    CASE op \in {"Tj", "'"} -> Len(args) = 1 /\ args[1].Type = "String"
      [] op = "TJ" -> Len(args) = 1 /\ args[1].Type = "Array"
      [] op = "\"" -> Len(args) = 3 /\ args[3].Type = "String"
      [] OTHER -> FALSE

\* The decoded text of a text-showing operator with its operands.
TextOf(op, args, hasFont) ==
    CASE op \in {"Tj", "'"} -> decodeTextObj(args[1], hasFont)
      [] op = "TJ" -> Shown(args[1].Array, hasFont)
      [] op = "\"" -> decodeTextObj(args[3], hasFont)

\* C27: the interpreter is in a text object from a BT to the next ET; a step
\* adds a span only if its operator is Tj, TJ, ' or " and the interpreter is
\* in a text object, and a text-showing operator with its operands adds a
\* span, exactly one, if and only if the interpreter is in a text object and
\* the decoded text is not empty.
C27_SpanOnlyInTextObject ==
    [][TextStep =>
        /\ ts'.inText = (IF StepOp = "BT" THEN TRUE
                         ELSE IF StepOp = "ET" THEN FALSE
                         ELSE ts.inText)
        /\ spans' # spans =>
              /\ StepOp \in ShowOperators
              /\ ts.inText
              /\ Len(spans') = Len(spans) + 1
              /\ SubSeq(spans', 1, Len(spans)) = spans
              /\ spans'[Len(spans')].text # <<>>
        /\ (StepOp \in ShowOperators /\ ShowOperands(StepOp, StepArgs)) =>
              /\ (spans' # spans) =
                    (ts.inText /\ TextOf(StepOp, StepArgs, ts.hasFont) # <<>>)
              /\ spans' # spans =>
                    spans'[Len(spans')].text = TextOf(StepOp, StepArgs, ts.hasFont)]_vars

\* C27 witness: after BT, ' has added a span and ET has ended the text
\* object.
C27_Witness ==
    /\ opLast.op = "ET"
    /\ ~ts.inText
    /\ opCount = 3
    /\ Len(spans) = 1
    /\ spans[1].y = 0

\* The text position and leading of a textState.
Position(t) == <<t.tx, t.ty, t.lx, t.ly, t.leading>>

\* One operator after another: op2 with args2 on what op1 leaves.
Then(r, op2, args2) == processOperator(op2, args2, r.ts, r.spans)

\* The numbers of an operand, in tenths.
NumberOf(obj) == obj.Num

\* C28: every step leaves (tx, ty) = (lx, ly); BT, Td, TD, Tm and T* with
\* their operands move the position by their rule and no other operator than
\* ' and " moves it; ' is T* followed by Tj, and " is Tw, Tc, T*, Tj; a span
\* added has the coordinates of the position the step leaves.
C28_SpanAtTextPosition ==
    [][TextStep =>
        /\ ts'.tx = ts'.lx
        /\ ts'.ty = ts'.ly
        /\ StepOp = "BT" => Position(ts') = <<0, 0, 0, 0, ts.leading>>
        /\ (StepOp = "Td" /\ Len(StepArgs) = 2) =>
              Position(ts') = <<ts.lx + NumberOf(StepArgs[1]), ts.ly + NumberOf(StepArgs[2]),
                                ts.lx + NumberOf(StepArgs[1]), ts.ly + NumberOf(StepArgs[2]),
                                ts.leading>>
        /\ (StepOp = "TD" /\ Len(StepArgs) = 2) =>
              Position(ts') = <<ts.lx + NumberOf(StepArgs[1]), ts.ly + NumberOf(StepArgs[2]),
                                ts.lx + NumberOf(StepArgs[1]), ts.ly + NumberOf(StepArgs[2]),
                                0 - NumberOf(StepArgs[2])>>
        /\ (StepOp = "Tm" /\ Len(StepArgs) = 6) =>
              Position(ts') = <<NumberOf(StepArgs[5]), NumberOf(StepArgs[6]),
                                NumberOf(StepArgs[5]), NumberOf(StepArgs[6]), ts.leading>>
        /\ StepOp = "T*" =>
              Position(ts') = <<0, ts.ly - ts.leading, 0, ts.ly - ts.leading, ts.leading>>
        /\ StepOp = "TL" /\ Len(StepArgs) = 1 =>
              Position(ts') = <<ts.tx, ts.ty, ts.lx, ts.ly, NumberOf(StepArgs[1])>>
        /\ StepOp \notin {"BT", "Td", "TD", "Tm", "T*", "TL", "'", "\""} =>
              Position(ts') = Position(ts)
        /\ (StepOp = "'" /\ Len(StepArgs) = 1) =>
              LET r == Then(processOperator("T*", <<>>, ts, spans), "Tj", StepArgs)
              IN ts' = r.ts /\ spans' = r.spans
        /\ (StepOp = "\"" /\ Len(StepArgs) = 3) =>
              LET r == Then(Then(Then(processOperator("Tw", <<StepArgs[1]>>, ts, spans),
                                      "Tc", <<StepArgs[2]>>),
                                 "T*", <<>>),
                            "Tj", <<StepArgs[3]>>)
              IN ts' = r.ts /\ spans' = r.spans
        /\ spans' # spans =>
              /\ spans'[Len(spans')].x = ts'.tx
              /\ spans'[Len(spans')].y = ts'.ty]_vars

\* C28 witness: after TD with (50, -20), ' has moved to the next line, 20
\* further down at x = 0, and has added its span there.
C28_Witness ==
    /\ opLast.op = "'"
    /\ opCount = 3
    /\ ts.leading = 200
    /\ Len(spans) = 1
    /\ spans[1].x = 0
    /\ spans[1].y = 0 - 400

(***************************************************************************)
(* Font encoding: ToUnicode bfrange entries                                *)
(***************************************************************************)

\* The most iterations of the bfrange loop that are followed.
MaxRangeSteps == 4

\* A uint32 code is held as its two 16-bit halves <<high half, low half>>.
U32Inc(c) ==
    IF c[2] = 65535 THEN <<(c[1] + 1) % 65536, 0>> ELSE <<c[1], c[2] + 1>>
U32Leq(a, b) == a[1] < b[1] \/ (a[1] = b[1] /\ a[2] <= b[2])
U32Sub(a, b) ==
    LET borrow == IF a[2] < b[2] THEN 1 ELSE 0
    IN <<(a[1] - b[1] - borrow + 131072) % 65536, (a[2] - b[2] + 65536) % 65536>>

\* rune(c) and the index c of a map or array: the 32 bits of c as an int32.
Int32Of(c) ==
    IF c[1] < 32768 THEN c[1] * 65536 + c[2] ELSE (c[1] - 65536) * 65536 + c[2]

\* code < 256
Below256(c) == c[1] = 0 /\ c[2] < 256

\* v <<= 4; v |= uint32(hexValRune(c)) over the characters of s, in a uint32.
RECURSIVE HexAcc32(_, _)
HexAcc32(s, v) ==
    IF s = <<>> THEN v
    ELSE HexAcc32(Tail(s),
                  <<((v[1] * 16) % 65536) + (v[2] \div 4096),
                    ((v[2] * 16) % 65536) + hexValRune(Head(s))>>)

\* parseHexToken(s) with all 32 bits of the code.
parseHexToken32(s) == HexAcc32(TokenText(s), <<0, 0>>)

\* strings.Join(tokens, " ")
RECURSIVE JoinTokens(_)
JoinTokens(tokens) ==
    IF tokens = <<>> THEN <<>>
    ELSE IF Len(tokens) = 1 THEN tokens[1]
    ELSE tokens[1] \o <<" ">> \o JoinTokens(Tail(tokens))

\* strings.TrimPrefix(s, "[") and strings.TrimSuffix(s, "]")
TrimBrackets(s) ==
    LET s1 == IF s # <<>> /\ Head(s) = "[" THEN Tail(s) ELSE s
    IN IF s1 # <<>> /\ s1[Len(s1)] = "]" THEN SubSeq(s1, 1, Len(s1) - 1) ELSE s1

\* parseBFRangeEntry(line) up to its loop: the locals the loop starts with.
RangeLocals(tokens) ==
    LET low == parseHexToken32(tokens[1])
        dst == tokens[3]
        array == dst # <<>> /\ Head(dst) = "["
        startRunes == parseHexUTF16(dst)
    IN [low |-> low,
        high |-> parseHexToken32(tokens[2]),
        array |-> array,
        arrTokens |-> IF array
                      THEN parseCMapTokens(TrimBrackets(JoinTokens(SubSeq(tokens, 3, Len(tokens)))), 0)
                      ELSE <<>>,
        startCode |-> IF ~array /\ Len(startRunes) > 0 THEN startRunes[1] ELSE 0,
        code |-> low,
        i |-> 0]

\* The body of the loop of the array form on the encoding e.
ArrayBody(e, l) ==
    IF l.i < Len(l.arrTokens)
    THEN LET s == parseHexUTF16(l.arrTokens[l.i + 1])
         IN IF e.isSimple /\ Below256(l.code)
            THEN IF Len(s) > 0
                 THEN [e EXCEPT !.codeToUnicode = MapSet(e.codeToUnicode, Int32Of(l.code), s[1])]
                 ELSE e
            ELSE [e EXCEPT !.cmapChars = MapSet(e.cmapChars, Int32Of(l.code), s)]
    ELSE e

\* The body of the loop of the sequential form: r := startCode + offset.
SequentialBody(e, l) ==
    LET r == l.startCode + Int32Of(U32Sub(l.code, l.low))
    IN IF e.isSimple /\ Below256(l.code)
       THEN [e EXCEPT !.codeToUnicode = MapSet(e.codeToUnicode, Int32Of(l.code), r)]
       ELSE [e EXCEPT !.cmapChars = MapSet(e.cmapChars, Int32Of(l.code), <<WriteRune(r)>>)]

\* The ranges: the bytes of lo and of hi.
RangeCodes ==
    {<<<<0, 65>>, <<0, 66>>>>, <<<<65>>, <<66>>>>, <<<<0, 66>>, <<0, 65>>>>,
     <<<<255, 255, 255, 254>>, <<255, 255, 255, 255>>>>,
     <<<<255, 255, 255, 255>>, <<255, 255, 255, 255>>>>}

\* The destinations of the sequential form, in UTF-16 units: a letter, two
\* letters, the surrogates of U+1F600 and the unit below the surrogates.
RangeStarts == {<<97>>, <<102, 105>>, <<55357, 56832>>, <<55295>>}

\* The destinations of the array form.
RangeArrays == {<<<<97>>, <<120>>>>, <<<<102, 105>>, <<55357, 56832>>>>, <<<<97>>>>}

RECURSIVE JoinArray(_)
JoinArray(arr) ==
    IF arr = <<>> THEN <<>>
    ELSE IF Len(arr) = 1 THEN <<"<">> \o JoinUnits(arr[1], <<>>) \o <<">">>
    ELSE <<"<">> \o JoinUnits(arr[1], <<>>) \o <<">", " ">> \o JoinArray(Tail(arr))

\* The bfrange lines: <lo> <hi> <dst> and <lo> <hi> [<s0> <s1> ...].
BFRangeLines ==
    {[lo |-> c[1], hi |-> c[2], array |-> FALSE, units |-> us, arr |-> <<>>,
      text |-> <<"<">> \o HexOfBytes(c[1]) \o <<">", " ", "<">> \o HexOfBytes(c[2])
               \o <<">", " ", "<">> \o JoinUnits(us, <<>>) \o <<">">>] :
        c \in RangeCodes, us \in RangeStarts}
    \cup
    {[lo |-> c[1], hi |-> c[2], array |-> TRUE, units |-> <<>>, arr |-> a,
      text |-> <<"<">> \o HexOfBytes(c[1]) \o <<">", " ", "<">> \o HexOfBytes(c[2])
               \o <<">", " ", "[">> \o JoinArray(a) \o <<"]">>] :
        c \in RangeCodes, a \in RangeArrays}

\* A FontEncoding before a line between beginbfrange and endbfrange.
RangeInit ==
    /\ LoadIdle
    /\ ParseIdle
    /\ DocIdle
    /\ LayIdle
    /\ FiltIdle
    /\ RsIdle
    /\ ConvIdle
    /\ VerIdle
    /\ OpIdle
    /\ DecIdle
    /\ cmLine \in BFRangeLines
    /\ enc \in [isSimple : BOOLEAN, codeToUnicode : {EmptyMap}, cmapChars : {EmptyMap}]
    /\ cmOut = <<>>
    /\ cmPc = "line"
    /\ cmLoop = <<>>

\* parseBFRangeEntry(line) from its call to the first test of its loop.
ParseBFRangeEntry ==
    /\ cmPc = "line"
    /\ LET tokens == parseCMapTokens(cmLine.text, 0)
       IN IF Len(tokens) < 3
          THEN cmPc' = "parsed" /\ cmLoop' = cmLoop
          ELSE cmPc' = "range" /\ cmLoop' = RangeLocals(tokens)
    /\ UNCHANGED <<cmLine, enc, cmOut>>
    /\ UNCHANGED notCmapVars

\* One iteration of the loop: code <= high, the body, code++ in a uint32.
RangeIteration ==
    /\ cmPc = "range"
    /\ cmLoop.i < MaxRangeSteps
    /\ U32Leq(cmLoop.code, cmLoop.high)
    /\ enc' = IF cmLoop.array THEN ArrayBody(enc, cmLoop) ELSE SequentialBody(enc, cmLoop)
    /\ cmLoop' = [cmLoop EXCEPT !.code = U32Inc(cmLoop.code), !.i = cmLoop.i + 1]
    /\ UNCHANGED <<cmLine, cmOut, cmPc>>
    /\ UNCHANGED notCmapVars

\* The loop ends when code <= high is false, and parseBFRangeEntry returns.
RangeReturn ==
    /\ cmPc = "range"
    /\ ~U32Leq(cmLoop.code, cmLoop.high)
    /\ cmPc' = "parsed"
    /\ UNCHANGED <<cmLine, enc, cmOut, cmLoop>>
    /\ UNCHANGED notCmapVars

RangeNext == ParseBFRangeEntry \/ RangeIteration \/ RangeReturn

SpecRange == RangeInit /\ [][RangeNext]_vars

\* What the encoding holds for the code c: the runes of its string.
HasMapping(e, c) ==
    IF e.isSimple /\ Below256(c)
    THEN Int32Of(c) \in DOMAIN e.codeToUnicode
    ELSE Int32Of(c) \in DOMAIN e.cmapChars
Mapping(e, c) ==
    IF e.isSimple /\ Below256(c)
    THEN <<WriteRune(e.codeToUnicode[Int32Of(c)])>>
    ELSE e.cmapChars[Int32Of(c)]

\* The code lo + k of a line.
RECURSIVE U32Plus(_, _)
U32Plus(c, k) == IF k = 0 THEN c ELSE U32Plus(U32Inc(c), k - 1)

\* The codes lo .. hi of a line are the offsets 0 .. RangeLast(line).
RangeLast(line) == Int32Of(U32Sub(parseHexToken32(HexOfBytes(line.hi)),
                                  parseHexToken32(HexOfBytes(line.lo))))

\* The destination with its final UTF-16 unit incremented by k.
UnitsPlus(units, k) == [units EXCEPT ![Len(units)] = units[Len(units)] + k]

\* C29: after a bfrange line <lo> <hi> <dst>, each code lo + k of the range
\* maps to the string of dst with its final UTF-16 unit incremented by k and
\* the units before it kept; after <lo> <hi> [<s0> <s1> ...], lo + k maps to
\* s_k.
C29_RangeDestinations ==
    (cmPc = "parsed" /\ cmLoop # <<>>) =>
        \A k \in 0 .. RangeLast(cmLine) :
            LET c == U32Plus(cmLoop.low, k)
            IN IF cmLine.array
               THEN k < Len(cmLine.arr) =>
                        /\ HasMapping(enc, c)
                        /\ Mapping(enc, c) = utf16ToString(cmLine.arr[k + 1], 1)
               ELSE /\ HasMapping(enc, c)
                    /\ Mapping(enc, c) = utf16ToString(UnitsPlus(cmLine.units, k), 1)

\* C30: with lo <= hi the counter of the loop stays at or above lo until it
\* passes hi, so that the loop ends after hi - lo + 1 iterations, also for
\* hi = 0xFFFFFFFF.
C30_RangeLoopEnds ==
    (cmPc = "range" /\ U32Leq(cmLoop.low, cmLoop.high)) =>
        /\ U32Leq(cmLoop.low, cmLoop.code)
        /\ cmLoop.i <= RangeLast(cmLine) + 1

=============================================================================
